---- MODULE Spec2Model ----
(***************************************************************************)
(* Model of the XiCON Dance SCAIL serverless handler                       *)
(* (XiCON/XiCON_Dance_SCAIL/handler.py): one invocation of handler(job),   *)
(* from input validation to the returned result.  Every blocking call of   *)
(* the handler (HTTP poll, download, websocket receive, reconnect attempt, *)
(* history request, artifact fetch, file removal) is answered by the       *)
(* environment with one of the outcomes the call can produce.              *)
(*                                                                         *)
(* Spec is that invocation.  SpecValidate applies validate_input to the    *)
(* numeric parameters of a request; SpecJobs interleaves the downloads and *)
(* cleanups of two invocations that share the input directory; SpecTrack   *)
(* runs the receive loop against the engine's end of the stream, with the  *)
(* handler's steps weakly fair; SpecCheck is check_server for any number   *)
(* of retries; SpecTransform is transform_request_to_workflow.             *)
(***************************************************************************)
EXTENDS Integers, Sequences, FiniteSets, TLC

VARIABLES
    pc,              \* position of handler()
    hasVideo,        \* validated_data["dance_video_url"] is non-empty
    bucket,          \* os.environ BUCKET_ENDPOINT_URL is set
    dir,             \* job-scoped files present in COMFY_INPUT_DIR
    rmFailed,        \* an os.remove of the cleanup raised OSError (history)
    removes,         \* the os.remove calls issued, <<file, outcome>> (history)
    written,         \* files this job's downloads have written (history)
    dl,              \* state of each download task of asyncio.gather
    filenames,       \* handler's `filenames` dict
    polls,           \* loop index i of check_server
    ws,              \* handler's `ws`: "none", "open" or "closed"
    attempt,         \* loop index of _attempt_websocket_reconnect
    prompt_id,       \* handler's `prompt_id`
    execution_done,  \* handler's `execution_done`
    execErr,         \* the matching execution_error event received (history)
    errors,          \* handler's `errors` list
    outputs,         \* the result manifest read from the history
    view,            \* answer of /view (and of the upload) per file
    process_errors,  \* handler's `process_errors`
    output_images,   \* handler's `output_images`
    output_videos,   \* handler's `output_videos`
    fetched,         \* get_file_data calls issued (history)
    collected,       \* process_outputs has returned (history)
    error_data,      \* body of the 400 answer to POST /prompt (history)
    calls,           \* calls handler has made, by first occurrence (history)
    message,         \* what the last ws.recv() returned or raised (history)
    srv_status,      \* the last answer of _comfy_server_status
    delays,          \* time.sleep calls of the running reconnect (history)
    client_ids,      \* clientId of each connect and of the submission
    open_sockets,    \* stream connections of the job that are open
    result,          \* the value handler returns
    job_input,       \* argument of a validate_input call (SpecValidate)
    validated,       \* what that validate_input call returned (SpecValidate)
    job_ids,         \* job["id"] of two concurrent invocations (SpecJobs)
    jobs,            \* position, filenames and pending tasks of each of them
    input_dir,       \* COMFY_INPUT_DIR: file name -> the job that wrote it
    foreign,         \* writes and removals that hit another job's file
    link,            \* the engine's side of the stream: "up" or "down"
    stream,          \* frames sent on the connection and not yet received
    emitted,         \* the engine has emitted the job's terminal event
    closes,          \* how many times the connection has been lost
    connects,        \* reconnections attempted at the engine's end
    retries,         \* argument of a check_server call (SpecCheck)
    poll_i,          \* loop index of that check_server call
    responses,       \* what each of its requests.get calls answered
    reachable,       \* what that check_server call returned
    prompt,          \* validated_data["prompt"] of a transform call
    workflow         \* what transform_request_to_workflow returned

handlerVars ==
    << pc, hasVideo, bucket, dir, rmFailed, written, dl, filenames, polls, ws,
       attempt, prompt_id, execution_done, execErr, errors, outputs, view,
       process_errors, output_images, output_videos, fetched, collected,
       removes, error_data, calls, message, srv_status, delays, client_ids,
       open_sockets,
       result >>

\* the variables of SpecValidate and SpecJobs, which the specification of
\* one handler invocation leaves alone
\* a check_server call on its own (SpecCheck)
checkVars == << retries, poll_i, responses, reachable >>

\* a transform_request_to_workflow call on its own (SpecTransform)
transformVars == << prompt, workflow >>

otherVars ==
    << job_input, validated, job_ids, jobs, input_dir, foreign, checkVars,
       transformVars >>

\* the engine and its end of the stream (SpecTrack)
engineVars == << link, stream, emitted, closes, connects >>

sideVars == << otherVars, engineVars >>

vars == << handlerVars, sideVars >>

----------------------------------------------------------------------------
(* Program constants *)

COMFY_API_AVAILABLE_MAX_RETRIES == 500
WEBSOCKET_RECONNECT_ATTEMPTS == 5

(* Bounds of the model *)

MaxNodes == 2

----------------------------------------------------------------------------
(* Python values *)

NoneStr == "<None>"
None == [none |-> TRUE]
EmptyDict == [k \in {} |-> ""]
Pending == [pending |-> TRUE]

\* dict.get(k, default)
Get(d, k, default) == IF k \in DOMAIN d THEN d[k] ELSE default

\* truthiness of a str-or-None value
Falsy(s) == s \in {"", NoneStr}

RefFile == "ref_job"
DanceFile == "dance_job"
JobFiles == {RefFile, DanceFile}

OwnPrompt == "p1"
OtherPrompt == "p2"

\* client_id = str(uuid.uuid4()), and another id
client_id == "c1"
OtherClient == "c2"

\* ws_url = f"ws://{COMFY_HOST}/ws?clientId={client_id}", told by its clientId
ws_url == client_id

----------------------------------------------------------------------------
(* cleanup_input_files: every non-empty name of `fnames` that exists in the  *)
(* directory is removed, unless os.remove raises OSError for it (`failing`), *)
(* which is logged and skipped.                                             *)

Names(fnames) == {fnames[k] : k \in DOMAIN fnames} \ {""}

cleanup_input_files(dirv, fnames, failing) ==
    dirv \ (Names(fnames) \ failing)

\* the keys of `filenames` in the order download_inputs_async inserts them,
\* which is the order cleanup_input_files iterates in
FileKeys == <<"reference_image", "dance_video">>

\* the os.remove calls of one cleanup_input_files(fnames), in order: one for
\* each non-empty name that os.path.exists finds, each in its own try block
remove_calls(dirv, fnames, failing) ==
    LET present == SelectSeq(FileKeys,
                       LAMBDA k : /\ k \in DOMAIN fnames
                                  /\ fnames[k] # ""
                                  /\ fnames[k] \in dirv)
    IN  [i \in 1..Len(present) |->
            <<fnames[present[i]],
              IF fnames[present[i]] \in failing THEN "OSError" ELSE "removed">>]

----------------------------------------------------------------------------
HandlerInit ==
    /\ pc = "start"
    /\ hasVideo \in BOOLEAN
    /\ bucket \in BOOLEAN
    /\ dir = {}
    /\ rmFailed = FALSE
    /\ removes = << >>
    /\ written = {}
    /\ dl = [t \in {"reference_image", "dance_video"} |-> "none"]
    /\ filenames = EmptyDict
    /\ polls = 0
    /\ ws = "none"
    /\ attempt = 0
    /\ prompt_id = NoneStr
    /\ execution_done = FALSE
    /\ execErr = None
    /\ errors = << >>
    /\ outputs = << >>
    /\ view = EmptyDict
    /\ process_errors = << >>
    /\ output_images = << >>
    /\ output_videos = << >>
    /\ fetched = << >>
    /\ collected = FALSE
    /\ error_data = None
    /\ calls = << >>
    /\ message = None
    /\ srv_status = None
    /\ delays = 0
    /\ client_ids = {}
    /\ open_sockets = 0
    /\ result = Pending

\* no validate_input call is under study
ValidateIdle ==
    /\ job_input = None
    /\ validated = Pending

\* no pair of concurrent invocations is under study
JobsIdle ==
    /\ job_ids = << >>
    /\ jobs = << >>
    /\ input_dir = EmptyDict
    /\ foreign = {}

\* no transform_request_to_workflow call is under study
TransformIdle ==
    /\ prompt = << >>
    /\ workflow = None

\* no check_server call is under study
CheckIdle ==
    /\ retries = 0
    /\ poll_i = 0
    /\ responses = << >>
    /\ reachable = "running"

\* the engine's end of the stream is not under study
EngineIdle ==
    /\ link = "up"
    /\ stream = << >>
    /\ emitted = FALSE
    /\ closes = 0
    /\ connects = 0

Init ==
    /\ HandlerInit
    /\ ValidateIdle
    /\ JobsIdle
    /\ EngineIdle
    /\ TransformIdle
    /\ CheckIdle

\* a call of cleanup_input_files(filenames) by handler: os.remove is called
\* for the files that exist and may raise OSError for any of them
\* an exit that does not call cleanup_input_files
Cleanup_Skipped == UNCHANGED << dir, rmFailed, removes >>

Cleanup ==
    \E failing \in SUBSET (Names(filenames) \cap dir) :
        /\ dir' = cleanup_input_files(dir, filenames, failing)
        /\ rmFailed' = (rmFailed \/ failing # {})
        /\ removes' = removes \o remove_calls(dir, filenames, failing)

inputVars == << hasVideo, bucket >>
fileVars == << dir, rmFailed, removes, written, dl, filenames >>
trackVars == << ws, attempt, prompt_id, execution_done, execErr, errors >>
streamVars == << message, srv_status, delays, client_ids, open_sockets >>
collectVars == << outputs, view, process_errors, output_images, output_videos,
                  fetched, collected >>

\* handler calls `c`: recorded at its first occurrence
Log(c) ==
    calls' = IF \E i \in 1..Len(calls) : calls[i] = c
             THEN calls
             ELSE Append(calls, c)

\* handler returns `r` from outside the try block
Return(r) ==
    /\ result' = r
    /\ pc' = "done"

\* Except with a status field added to the error result
Except_WithStatus(msg) ==
    /\ Cleanup
    /\ result' = [status |-> "error", error |-> msg]
    /\ pc' = "finally"

\* an except clause that re-raises: handler returns no result
Except_Reraise(msg) ==
    /\ Cleanup
    /\ result' = [raised |-> msg]
    /\ pc' = "finally"

\* Except with the OSError of a failed os.remove replacing the error
Except_EscalateRemoveFailure(msg) ==
    /\ Cleanup
    /\ result' = [error |-> IF rmFailed' THEN <<"Unexpected error">> ELSE msg]
    /\ pc' = "finally"

\* an except clause of handler's try block: cleanup_input_files(filenames),
\* then return {"error": msg}; the finally clause runs before handler returns
Except(msg) ==
    /\ Cleanup
    /\ result' = [error |-> msg]
    /\ pc' = "finally"

----------------------------------------------------------------------------
(* Validation and liveness check *)

\* validate_input rejects the request: handler returns {"error": ...}
ValidateFail ==
    /\ pc = "start"
    /\ Return([error |-> <<"Invalid input">>])
    /\ UNCHANGED << inputVars, sideVars, streamVars, error_data, calls,
                    fileVars, polls, trackVars, collectVars >>

ValidateOk ==
    /\ pc = "start"
    /\ pc' = "check_server"
    /\ UNCHANGED << inputVars, sideVars, streamVars, error_data, calls,
                    fileVars, polls, trackVars, collectVars, result >>

\* one iteration of check_server's loop: HTTP 200 returns True, anything
\* else (another status, a request failure) sleeps and goes on
Poll ==
    /\ pc = "check_server"
    /\ Log("check_server")
    /\ polls < COMFY_API_AVAILABLE_MAX_RETRIES
    /\ \E healthy \in BOOLEAN :
           IF healthy
           THEN pc' = "download" /\ polls' = 0
           ELSE pc' = pc /\ polls' = polls + 1
    /\ UNCHANGED << inputVars, sideVars, streamVars, error_data, fileVars,
                    trackVars, collectVars, result >>

\* handler going on to the next stage although check_server returned False
CheckServerFail_GoOn ==
    /\ pc = "check_server"
    /\ polls = COMFY_API_AVAILABLE_MAX_RETRIES
    /\ pc' = "download"
    /\ UNCHANGED << inputVars, sideVars, streamVars, error_data, calls,
                    fileVars, polls, trackVars, collectVars, result >>

\* check_server returned False
CheckServerFail ==
    /\ pc = "check_server"
    /\ polls = COMFY_API_AVAILABLE_MAX_RETRIES
    /\ Return([error |-> <<"ComfyUI server not reachable">>])
    /\ UNCHANGED << inputVars, sideVars, streamVars, error_data, calls,
                    fileVars, polls, trackVars, collectVars >>

----------------------------------------------------------------------------
(* download_inputs: the downloads run concurrently under asyncio.gather *)

Tasks == IF hasVideo THEN {"reference_image", "dance_video"}
                     ELSE {"reference_image"}

TargetOf(t) == IF t = "reference_image" THEN RefFile ELSE DanceFile

\* download_inputs_async creates the tasks and awaits gather
StartDownloads ==
    /\ pc = "download"
    /\ Log("download_inputs")
    /\ dl' = [t \in DOMAIN dl |-> IF t \in Tasks THEN "running" ELSE "none"]
    /\ pc' = "gather"
    /\ UNCHANGED << inputVars, sideVars, streamVars, error_data, dir,
                    rmFailed, removes, written, filenames, polls, trackVars,
                    collectVars, result >>

\* download_file_async finishes: HTTP 200 writes the target file and returns
\* (True, ""); a non-200 answer, a timeout or an exception returns (False, msg)
download_file_async(t, ok) ==
    /\ pc = "gather"
    /\ dl[t] = "running"
    /\ IF ok
       THEN /\ dir' = dir \cup {TargetOf(t)}
            /\ written' = written \cup {TargetOf(t)}
            /\ dl' = [dl EXCEPT ![t] = "ok"]
            /\ UNCHANGED << rmFailed, removes >>
       ELSE /\ dl' = [dl EXCEPT ![t] = "fail"]
            /\ UNCHANGED << dir, rmFailed, removes, written >>
    /\ UNCHANGED << inputVars, sideVars, streamVars, error_data, calls,
                    filenames, polls, trackVars, collectVars, pc, result >>

\* a gather that returns as soon as one task has failed
Gathered_AtFirstFailure ==
    \/ \A t \in Tasks : dl[t] \in {"ok", "fail"}
    \/ \E t \in Tasks : dl[t] = "fail"

\* `await asyncio.gather(*download_tasks, return_exceptions=True)` returns:
\* every task has finished
Gathered == \A t \in Tasks : dl[t] \in {"ok", "fail"}

\* an error message that names the first source whatever failed
FirstFailed_AlwaysFirst == "reference_image"

\* the first task, in task order, whose result is a failure
FirstFailed ==
    IF dl["reference_image"] = "fail" THEN "reference_image" ELSE "dance_video"

\* gather returned and every result is a success: (filenames, None)
DownloadsOk ==
    /\ pc = "gather"
    /\ \A t \in Tasks : dl[t] = "ok"
    /\ filenames' = [reference_image |-> RefFile,
                     dance_video |-> IF hasVideo THEN DanceFile ELSE ""]
    /\ pc' = "load_template"
    /\ UNCHANGED << inputVars, sideVars, streamVars, error_data, calls, dir,
                    rmFailed, removes, written, dl, polls, trackVars,
                    collectVars, result >>

\* gather returned and some result is a failure: download_inputs returns
\* ({}, error) and handler returns {"error": error_message}
DownloadsFailed ==
    /\ pc = "gather"
    /\ Gathered
    /\ \E t \in Tasks : dl[t] = "fail"
    /\ filenames' = EmptyDict
    /\ Return([error |-> <<"Failed downloading", FirstFailed>>])
    /\ UNCHANGED << inputVars, sideVars, streamVars, error_data, calls, dir,
                    rmFailed, removes, written, dl, polls, trackVars,
                    collectVars >>

----------------------------------------------------------------------------
(* Template loading and transformation: on failure handler cleans up and *)
(* returns, outside the try block                                        *)

LoadTemplate ==
    /\ pc = "load_template"
    /\ Log("load_workflow_template")
    /\ \E ok \in BOOLEAN :
           IF ok
           THEN pc' = "transform" /\ UNCHANGED << dir, rmFailed, removes,
                                                  result >>
           ELSE /\ Cleanup
                /\ Return([error |-> <<"Failed to load workflow template">>])
    /\ UNCHANGED << inputVars, sideVars, streamVars, error_data, written, dl,
                    filenames, polls, trackVars, collectVars >>

Transform ==
    /\ pc = "transform"
    /\ Log("transform_request_to_workflow")
    /\ \E ok \in BOOLEAN :
           IF ok
           THEN pc' = "ws_connect" /\ UNCHANGED << dir, rmFailed, removes,
                                                   result >>
           ELSE /\ Cleanup
                /\ Return([error |-> <<"Failed to transform workflow">>])
    /\ UNCHANGED << inputVars, sideVars, streamVars, error_data, written, dl,
                    filenames, polls, trackVars, collectVars >>

----------------------------------------------------------------------------
(* Stream connection and submission (inside handler's try block) *)

\* ws.connect(ws_url): on failure (a WebSocketException, or an OSError that
\* the generic except clause catches) handler cleans up and returns an error
\* a failed connect after which handler goes on to the submission
ConnectFailure_GoOn ==
    /\ ws' = "closed"
    /\ pc' = "queue"
    /\ UNCHANGED << dir, rmFailed, removes, result >>

\* ws.connect raises: the except clause of the try block
ConnectFailure ==
    /\ ws' = "closed"
    /\ Except(<<"WebSocket communication error">>)

WsConnect ==
    /\ pc = "ws_connect"
    /\ Log("ws.connect")
    /\ client_ids' = client_ids \cup {<<"ws.connect", ws_url>>}
    /\ \E ok \in BOOLEAN :
           IF ok
           THEN /\ ws' = "open"
                /\ open_sockets' = open_sockets + 1
                /\ pc' = "queue"
                /\ UNCHANGED << dir, rmFailed, removes, result >>
           ELSE ConnectFailure /\ UNCHANGED open_sockets
    /\ UNCHANGED << inputVars, sideVars, message, srv_status, delays,
                    error_data, written, dl, filenames, polls, attempt,
                    prompt_id, execution_done, execErr, errors, collectVars >>

\* JSON bodies of a 400 answer of POST /prompt.  A JSON object is a record
\* of its keys; the `node_errors` object is the sequence of its
\* <<node_id, node_error>> items in iteration order; a node_error that is an
\* object is [dict |-> its <<error_type, error_msg>> items], any other JSON
\* value is [str |-> its text]; `error` is an object or [str |-> its text]
ErrorInfos == { [message |-> "Prompt outputs failed validation"],
                [type |-> "invalid_prompt"],
                [str |-> "bad request"] }

NodeErrorMaps ==
    { << >>,
      << <<"12", [dict |-> << <<"type_error", "bad value">> >>]>> >>,
      << <<"12", [dict |-> << <<"type_error", "bad value">>,
                              <<"value_error", "too big">> >>]>>,
         <<"7", [str |-> "missing input"]>> >>,
      << <<"7", [dict |-> << >>]>>,
         <<"3", [dict |-> << <<"type_error", "bad value">> >>]>> >> }

RejectionBodies ==
         [error : ErrorInfos, node_errors : NodeErrorMaps]
    \cup [node_errors : NodeErrorMaps]
    \cup [error : ErrorInfos]

\* the error_details entries of one node_errors item; a text is the
\* sequence of the pieces an f-string concatenates
DetailsOfNode(node_id, node_error) ==
    IF "dict" \in DOMAIN node_error
    THEN [i \in 1..Len(node_error.dict) |->
             <<"Node ", node_id, " (", node_error.dict[i][1], "): ",
               node_error.dict[i][2]>>]
    ELSE << <<"Node ", node_id, ": ", node_error.str>> >>

RECURSIVE ErrorDetails(_)
ErrorDetails(node_errors) ==
    IF Len(node_errors) = 0
    THEN << >>
    ELSE DetailsOfNode(Head(node_errors)[1], Head(node_errors)[2])
             \o ErrorDetails(Tail(node_errors))

\* "\n".join(f"(bullet) {d}" for d in error_details)
RECURSIVE JoinBullets(_)
JoinBullets(details) ==
    IF Len(details) = 0
    THEN << >>
    ELSE <<"(bullet) ">> \o Head(details)
             \o (IF Len(details) > 1 THEN <<"(newline)">> ELSE << >>)
             \o JoinBullets(Tail(details))

\* the message that reports only how many components were rejected
queue_workflow_error_Summary(error_data_) ==
    <<"Workflow validation failed", ": ", "node errors">>

\* the ValueError message queue_workflow raises for a parsed 400 body
queue_workflow_error(error_data_) ==
    LET default == "Workflow validation failed"
        error_message ==
            IF "error" \in DOMAIN error_data_
            THEN IF "str" \in DOMAIN error_data_.error
                 THEN error_data_.error.str
                 ELSE Get(error_data_.error, "message", default)
            ELSE default
        error_details ==
            IF "node_errors" \in DOMAIN error_data_
            THEN ErrorDetails(error_data_.node_errors)
            ELSE << >>
    IN  <<error_message>>
            \o (IF Len(error_details) > 0
                THEN <<":(newline)">> \o JoinBullets(error_details)
                ELSE << >>)

QueueOutcomes == {"ok", "no_prompt_id", "rejected", "unparsable_400",
                  "request_error"}

\* str(e) of the ValueError that ends the submission with outcome `o`
QueueFailure(o) ==
    CASE o = "no_prompt_id" -> <<"Missing 'prompt_id' in queue response">>
      [] o = "unparsable_400" ->
             <<"ComfyUI validation failed: ", "response.text">>
      [] o = "request_error" -> <<"Error queuing workflow: ", "e">>

\* a submission whose failure is not raised: tracking starts regardless
QueueWorkflow_Unchecked ==
    /\ pc = "queue"
    /\ Log("queue_workflow")
    /\ prompt_id' \in {OwnPrompt, NoneStr}
    /\ pc' = "recv"
    /\ client_ids' = client_ids \cup {<<"queue_workflow", client_id>>}
    /\ UNCHANGED << inputVars, sideVars, message, srv_status, delays,
                    open_sockets, error_data, fileVars, polls, ws, attempt,
                    execution_done, execErr, errors, collectVars, result >>

\* queue_workflow: a 400 answer raises ValueError, any request failure is
\* re-raised as ValueError, a response without prompt_id raises ValueError
QueueWorkflow ==
    /\ pc = "queue"
    /\ Log("queue_workflow")
    /\ client_ids' = client_ids \cup {<<"queue_workflow", client_id>>}
    /\ \E o \in QueueOutcomes :
           CASE o = "ok" ->
                /\ prompt_id' = OwnPrompt
                /\ pc' = "recv"
                /\ UNCHANGED << dir, rmFailed, removes, error_data, result >>
             [] o = "rejected" ->
                \E body \in RejectionBodies :
                    /\ error_data' = body
                    /\ Except(queue_workflow_error(body))
                    /\ UNCHANGED prompt_id
             [] OTHER ->
                /\ Except(QueueFailure(o))
                /\ UNCHANGED << prompt_id, error_data >>
    /\ UNCHANGED << inputVars, sideVars, message, srv_status, delays,
                    open_sockets, written, dl, filenames, polls, ws, attempt,
                    execution_done, execErr, errors, collectVars >>

----------------------------------------------------------------------------
(* The receive loop *)

NodeTypes == {"KSampler"}
NodeIds == {"3", "7"}
Messages == {"out of memory"}
Prompts == {OwnPrompt, OtherPrompt}

\* what ws.recv() returns or raises
Frames ==
         [kind : {"timeout", "closed", "ws_error", "binary", "invalid_json",
                  "not_an_object", "bad_shape", "status", "progress",
                  "other"}]
    \cup [kind : {"executing"}, node : {NoneStr, "3"}, prompt_id : Prompts]
    \cup [kind : {"execution_error"}, prompt_id : Prompts,
          node_type : NodeTypes, node_id : NodeIds, exception_message : Messages]

ExecutionErrorEntry(f) ==
    <<"Workflow execution error", f.node_type, f.node_id, f.exception_message>>

\* an idle executing event taken as the end of the job whatever its prompt_id
IsCompletion_AnyPrompt(f) ==
    /\ f.kind = "executing"
    /\ f.node = NoneStr

\* message["type"] == "executing", data.get("node") is None and
\* data.get("prompt_id") == prompt_id
IsCompletion(f) ==
    /\ f.kind = "executing"
    /\ f.node = NoneStr
    /\ f.prompt_id = prompt_id

\* an execution_error event recorded whatever its prompt_id
IsExecutionError_AnyPrompt(f) == f.kind = "execution_error"

\* message["type"] == "execution_error" and
\* data.get("prompt_id") == prompt_id
IsExecutionError(f) ==
    /\ f.kind = "execution_error"
    /\ f.prompt_id = prompt_id

\* a loop that goes on receiving after the terminal event
Break_Continue == pc' = "recv"

\* `break`: the statement after the while loop is next
Break == pc' = "history"

\* a receive timeout taken for a closed connection
IsClosed_OrTimeout(f) == f.kind \in {"closed", "timeout"}

\* ws.recv() raises WebSocketConnectionClosedException
IsClosed(f) == f.kind = "closed"

\* one iteration of the while loop: ws.recv() and the handling of its result
RecvStep(f) ==
    /\ pc = "recv"
    /\ Log("ws.recv")
    /\ ws = "open"
    /\ message' = f
    /\ open_sockets' = IF IsClosed(f) THEN open_sockets - 1 ELSE open_sockets
    /\ CASE IsClosed(f) ->
              \* WebSocketConnectionClosedException: reconnect
              /\ ws' = "closed"
              /\ attempt' = 0
              /\ pc' = "reconnect"
              /\ UNCHANGED << dir, rmFailed, removes, execution_done, execErr,
                              errors, result >>
         [] f.kind = "ws_error" ->
              \* another WebSocketException leaves the loop and the try block
              /\ Except(<<"WebSocket communication error">>)
              /\ UNCHANGED << ws, attempt, execution_done, execErr, errors >>
         [] f.kind \in {"not_an_object", "bad_shape"} ->
              \* JSON that is no object, or an object whose "data" is none:
              \* .get raises AttributeError, the generic except clause
              /\ Except(<<"Unexpected error">>)
              /\ UNCHANGED << ws, attempt, execution_done, execErr, errors >>
         [] IsCompletion(f) ->
              /\ execution_done' = TRUE
              /\ Break
              /\ UNCHANGED << dir, rmFailed, removes, ws, attempt, execErr,
                              errors, result >>
         [] IsExecutionError(f) ->
              /\ errors' = Append(errors, ExecutionErrorEntry(f))
              /\ execErr' = f
              /\ Break
              /\ UNCHANGED << dir, rmFailed, removes, ws, attempt,
                              execution_done, result >>
         [] OTHER ->
              \* timeout, binary frame, invalid JSON, status, progress, another
              \* type, an event of another prompt: the loop goes on
              /\ UNCHANGED << pc, dir, rmFailed, removes, ws, attempt,
                              execution_done, execErr, errors, result >>
    /\ UNCHANGED << inputVars, otherVars, srv_status, delays, client_ids,
                    error_data, written, dl, filenames, polls, prompt_id,
                    collectVars >>

\* that iteration in a run where the engine's end is not under study
Recv(f) == RecvStep(f) /\ UNCHANGED engineVars

\* the new connection returned but not assigned to handler's `ws`
Resume_OldConnection ==
    /\ attempt' = 0
    /\ delays' = 0
    /\ open_sockets' = open_sockets + 1
    /\ pc' = "recv"
    /\ UNCHANGED << dir, rmFailed, removes, ws, result >>

\* a count of attempts that goes on where the last reconnect stopped
Resume_KeepCount ==
    /\ ws' = "open"
    /\ UNCHANGED attempt
    /\ delays' = 0
    /\ open_sockets' = open_sockets + 1
    /\ pc' = "recv"
    /\ UNCHANGED << dir, rmFailed, removes, result >>

\* _attempt_websocket_reconnect returns new_ws: handler assigns it to `ws`
\* and continues the receive loop
Resume ==
    /\ ws' = "open"
    /\ attempt' = 0
    /\ delays' = 0
    /\ open_sockets' = open_sockets + 1
    /\ pc' = "recv"
    /\ UNCHANGED << dir, rmFailed, removes, result >>

\* a loop that runs one iteration more than range(n)
InRange_Inclusive(i, n) == i <= n

\* `for i in range(n)`: there is an iteration for index i
InRange(i, n) == i < n

\* what _comfy_server_status returns
ServerStatuses == [reachable : BOOLEAN]

\* a reconnect that goes on whatever the reachability check answers
Unreachable_Ignored(status) == FALSE

\* `if not srv_status["reachable"]`
Unreachable(status) == ~status.reachable

\* a reconnection under a client id of its own
reconnect_url_Fresh == OtherClient

\* the ws_url argument handler passes to _attempt_websocket_reconnect
reconnect_url == ws_url

\* one iteration of _attempt_websocket_reconnect's loop: the reachability
\* check, then new_ws.connect(ws_url) and, if that fails and another
\* iteration follows, time.sleep(delay_s)
ReconnectAttemptStep ==
    /\ pc = "reconnect"
    /\ Log("_attempt_websocket_reconnect")
    /\ InRange(attempt, WEBSOCKET_RECONNECT_ATTEMPTS)
    /\ \E status \in ServerStatuses, connected \in BOOLEAN :
           /\ srv_status' = status
           /\ IF Unreachable(status)
              THEN \* raise at once
                   /\ Except(<<"WebSocket communication error">>)
                   /\ UNCHANGED << ws, attempt, delays, client_ids,
                                   open_sockets >>
              ELSE /\ client_ids' =
                          client_ids \cup {<<"reconnect", reconnect_url>>}
                   /\ IF connected
                      THEN Resume
                      ELSE /\ attempt' = attempt + 1
                           /\ delays' =
                                  IF attempt < WEBSOCKET_RECONNECT_ATTEMPTS - 1
                                  THEN delays + 1
                                  ELSE delays
                           /\ UNCHANGED << pc, dir, rmFailed, removes, ws,
                                           open_sockets, result >>
    /\ UNCHANGED << inputVars, otherVars, message, error_data, written, dl,
                    filenames, polls, prompt_id, execution_done, execErr,
                    errors, collectVars >>

\* that iteration in a run where the engine's end is not under study
ReconnectAttempt == ReconnectAttemptStep /\ UNCHANGED engineVars

\* every attempt failed: WebSocketConnectionClosedException
ReconnectExhausted ==
    /\ pc = "reconnect"
    /\ ~InRange(attempt, WEBSOCKET_RECONNECT_ATTEMPTS)
    /\ Except(<<"WebSocket communication error">>)
    /\ UNCHANGED << inputVars, sideVars, streamVars, error_data, calls,
                    written, dl, filenames, polls, trackVars, collectVars >>

----------------------------------------------------------------------------
(* The result manifest: history[prompt_id]["outputs"], a mapping from node  *)
(* id to output sets.  A manifest is a sequence of nodes in the mapping's   *)
(* iteration order; the node at position i has id ToString(i).              *)

ImgA == [filename |-> "a.png", subfolder |-> "", type |-> "output"]
ImgNoType == [filename |-> "a.png"]
ImgTemp == [filename |-> "t.png", subfolder |-> "", type |-> "temp"]
ImgNoName == [subfolder |-> "", type |-> "output"]
VidB == [filename |-> "b.mp4", subfolder |-> "", type |-> "output",
         format |-> "video/webm"]
VidNoFormat == [filename |-> "b.mp4", subfolder |-> "", type |-> "output"]
VidTemp == [filename |-> "t.mp4", subfolder |-> "", type |-> "temp",
            format |-> "video/webm"]

NodeShapes ==
    { [images |-> <<ImgTemp, ImgNoType>>],
      [images |-> <<ImgNoName, ImgA>>],
      [images |-> << >>],
      [gifs |-> <<VidNoFormat>>],
      [images |-> <<ImgTemp>>, gifs |-> <<VidTemp>>],
      [text |-> <<ImgA>>],
      [images |-> <<ImgA>>, gifs |-> <<VidB>>, text |-> <<VidB>>] }

Manifests == UNION { [1..n -> NodeShapes] : n \in 0..MaxNodes }

\* files of the output store the handler may ask /view for
FetchableFiles == {"a.png", "b.mp4"}
TempFiles == {"t.png", "t.mp4"}

\* the entries of a manifest under its images and gifs sets, as
\* <<node position, key, index>>
EntriesOf(outs) ==
    UNION { { <<i, k, j>> : j \in DOMAIN outs[i][k] } :
                <<i, k>> \in { <<i, k>> \in (DOMAIN outs) \X {"images", "gifs"} :
                                  k \in DOMAIN outs[i] } }

EntryAt(outs, p) == outs[p[1]][p[2]][p[3]]

\* the answers of the /view endpoint and of the upload, per file: "ok",
\* "fetch_fail" (timeout or non-2xx) or, with a bucket configured,
\* "upload_fail"; files the manifest does not list are not asked for
Views(outs, b) ==
    LET listed == { Get(EntryAt(outs, p), "filename", NoneStr) :
                        p \in EntriesOf(outs) }
        answers == IF b THEN {"ok", "fetch_fail", "upload_fail"}
                        ELSE {"ok", "fetch_fail"}
    IN  { v \in [FetchableFiles \cup TempFiles -> answers] :
              \A f \in DOMAIN v :
                  (f \notin listed \/ f \in TempFiles) => v[f] = "ok" }

----------------------------------------------------------------------------
(* Output processing *)

\* get_file_data: the bytes of the file, or None on a timeout or request error
get_file_data(filename, subfolder, file_type, v) ==
    IF v[filename] = "fetch_fail" THEN None ELSE [bytes |-> filename]

\* process_image_output without the check of the temp storage class
process_image_output_NoTempCheck(image_info, v, b) ==
    LET filename == Get(image_info, "filename", NoneStr)
        subfolder == Get(image_info, "subfolder", "")
        img_type == Get(image_info, "type", "output")
        call == [filename |-> filename, subfolder |-> subfolder,
                 type |-> img_type]
    IN  IF Falsy(filename) THEN [res |-> None, calls |-> << >>]
        ELSE IF get_file_data(filename, subfolder, img_type, v) = None
        THEN [res |-> None, calls |-> <<call>>]
        ELSE IF b
        THEN IF v[filename] = "upload_fail"
             THEN [res |-> None, calls |-> <<call>>]
             ELSE [res |-> [filename |-> filename, type |-> "s3_url",
                            data |-> [s3_url |-> filename]],
                   calls |-> <<call>>]
        ELSE [res |-> [filename |-> filename, type |-> "base64",
                       data |-> [base64 |-> filename]],
              calls |-> <<call>>]

\* process_image_output: the artifact or None, and the /view calls it made
process_image_output(image_info, v, b) ==
    LET filename == Get(image_info, "filename", NoneStr)
        subfolder == Get(image_info, "subfolder", "")
        img_type == Get(image_info, "type", "output")
        call == [filename |-> filename, subfolder |-> subfolder,
                 type |-> img_type]
    IN  IF img_type = "temp" THEN [res |-> None, calls |-> << >>]
        ELSE IF Falsy(filename) THEN [res |-> None, calls |-> << >>]
        ELSE IF get_file_data(filename, subfolder, img_type, v) = None
        THEN [res |-> None, calls |-> <<call>>]
        ELSE IF b
        THEN IF v[filename] = "upload_fail"
             THEN [res |-> None, calls |-> <<call>>]
             ELSE [res |-> [filename |-> filename, type |-> "s3_url",
                            data |-> [s3_url |-> filename]],
                   calls |-> <<call>>]
        ELSE [res |-> [filename |-> filename, type |-> "base64",
                       data |-> [base64 |-> filename]],
              calls |-> <<call>>]

\* process_video_output tagging every video with the fallback format
process_video_output_FixedFormat(video_info, v, b) ==
    LET filename == Get(video_info, "filename", NoneStr)
        subfolder == Get(video_info, "subfolder", "")
        video_type == Get(video_info, "type", "output")
        video_format == "video/h264-mp4"
        call == [filename |-> filename, subfolder |-> subfolder,
                 type |-> video_type]
    IN  IF video_type = "temp" THEN [res |-> None, calls |-> << >>]
        ELSE IF Falsy(filename) THEN [res |-> None, calls |-> << >>]
        ELSE IF get_file_data(filename, subfolder, video_type, v) = None
        THEN [res |-> None, calls |-> <<call>>]
        ELSE IF b
        THEN IF v[filename] = "upload_fail"
             THEN [res |-> None, calls |-> <<call>>]
             ELSE [res |-> [filename |-> filename, type |-> "s3_url",
                            data |-> [s3_url |-> filename],
                            format |-> video_format],
                   calls |-> <<call>>]
        ELSE [res |-> [filename |-> filename, type |-> "base64",
                       data |-> [base64 |-> filename],
                       format |-> video_format],
              calls |-> <<call>>]

\* process_video_output: as for images, plus the entry's format tag
process_video_output(video_info, v, b) ==
    LET filename == Get(video_info, "filename", NoneStr)
        subfolder == Get(video_info, "subfolder", "")
        video_type == Get(video_info, "type", "output")
        video_format == Get(video_info, "format", "video/h264-mp4")
        call == [filename |-> filename, subfolder |-> subfolder,
                 type |-> video_type]
    IN  IF video_type = "temp" THEN [res |-> None, calls |-> << >>]
        ELSE IF Falsy(filename) THEN [res |-> None, calls |-> << >>]
        ELSE IF get_file_data(filename, subfolder, video_type, v) = None
        THEN [res |-> None, calls |-> <<call>>]
        ELSE IF b
        THEN IF v[filename] = "upload_fail"
             THEN [res |-> None, calls |-> <<call>>]
             ELSE [res |-> [filename |-> filename, type |-> "s3_url",
                            data |-> [s3_url |-> filename],
                            format |-> video_format],
                   calls |-> <<call>>]
        ELSE [res |-> [filename |-> filename, type |-> "base64",
                       data |-> [base64 |-> filename],
                       format |-> video_format],
              calls |-> <<call>>]

\* the images loop leaving at the first entry that fails
RECURSIVE EachImage_AbortOnFailure(_, _, _, _, _)
EachImage_AbortOnFailure(infos, node_id, acc, v, b) ==
    IF infos = << >> THEN acc
    ELSE LET image_info == Head(infos)
             r == process_image_output(image_info, v, b)
             acc1 == [acc EXCEPT !.calls = @ \o r.calls]
         IN  IF r.res # None
             THEN EachImage_AbortOnFailure(Tail(infos), node_id,
                      [acc1 EXCEPT !.images = Append(@, r.res)], v, b)
             ELSE IF Get(image_info, "type", NoneStr) # "temp"
             THEN [acc1 EXCEPT !.errors = Append(@,
                      <<"Failed to process image from node", node_id>>)]
             ELSE EachImage_AbortOnFailure(Tail(infos), node_id, acc1, v, b)

\* the body of process_outputs' loop over node_output["images"]
RECURSIVE EachImage(_, _, _, _, _)
EachImage(infos, node_id, acc, v, b) ==
    IF infos = << >> THEN acc
    ELSE LET image_info == Head(infos)
             r == process_image_output(image_info, v, b)
             acc1 == [acc EXCEPT !.calls = @ \o r.calls]
             acc2 == IF r.res # None
                     THEN [acc1 EXCEPT !.images = Append(@, r.res)]
                     ELSE IF Get(image_info, "type", NoneStr) # "temp"
                     THEN [acc1 EXCEPT !.errors = Append(@,
                              <<"Failed to process image from node", node_id>>)]
                     ELSE acc1
         IN  EachImage(Tail(infos), node_id, acc2, v, b)

\* the body of process_outputs' loop over node_output["gifs"]
RECURSIVE EachVideo(_, _, _, _, _)
EachVideo(infos, node_id, acc, v, b) ==
    IF infos = << >> THEN acc
    ELSE LET video_info == Head(infos)
             r == process_video_output(video_info, v, b)
             acc1 == [acc EXCEPT !.calls = @ \o r.calls]
             acc2 == IF r.res # None
                     THEN [acc1 EXCEPT !.videos = Append(@, r.res)]
                     ELSE IF Get(video_info, "type", NoneStr) # "temp"
                     THEN [acc1 EXCEPT !.errors = Append(@,
                              <<"Failed to process video from node", node_id>>)]
                     ELSE acc1
         IN  EachVideo(Tail(infos), node_id, acc2, v, b)

\* one node of process_outputs' loop: its images set, then its gifs set;
\* any other key is only logged
EachNode(node_output, node_id, acc, v, b) ==
    LET acc1 == IF "images" \in DOMAIN node_output
                THEN EachImage(node_output["images"], node_id, acc, v, b)
                ELSE acc
    IN  IF "gifs" \in DOMAIN node_output
        THEN EachVideo(node_output["gifs"], node_id, acc1, v, b)
        ELSE acc1

RECURSIVE NodesFrom(_, _, _, _, _)
NodesFrom(outs, i, acc, v, b) ==
    IF i > Len(outs) THEN acc
    ELSE NodesFrom(outs, i + 1, EachNode(outs[i], ToString(i), acc, v, b), v, b)

\* process_outputs: (images, videos, errors), and the /view calls made
process_outputs(outs, v, b) ==
    NodesFrom(outs, 1,
              [images |-> << >>, videos |-> << >>, errors |-> << >>,
               calls |-> << >>], v, b)

----------------------------------------------------------------------------
(* History retrieval, collection, the finally clause and the response *)

NotFoundEntry == <<"Prompt ID not found in history">>
NoOutputsEntry == <<"No outputs found in history">>

\* get_history raises a RequestException
GetHistoryFail ==
    /\ pc = "history"
    /\ Log("get_history")
    /\ IF ~execution_done /\ errors = << >>
       THEN Except(<<"Workflow loop exited without completion or error">>)
       ELSE Except(<<"HTTP communication error">>)
    /\ UNCHANGED << inputVars, sideVars, streamVars, error_data, written, dl,
                    filenames, polls, trackVars, collectVars >>

\* prompt_id is not a key of the history: return from inside the try block
GetHistoryMissing ==
    /\ pc = "history"
    /\ Log("get_history")
    /\ execution_done \/ errors # << >>
    /\ IF errors # << >>
       THEN /\ errors' = Append(errors, NotFoundEntry)
            /\ result' = [error |-> <<"Job processing failed">>,
                          details |-> errors']
       ELSE /\ result' = [error |-> NotFoundEntry]
            /\ UNCHANGED errors
    /\ pc' = "finally"
    /\ UNCHANGED << inputVars, sideVars, streamVars, error_data, fileVars,
                    polls, ws, attempt, prompt_id, execution_done, execErr,
                    collectVars >>

\* the history holds the prompt: its outputs are read
GetHistory(m) ==
    /\ pc = "history"
    /\ Log("get_history")
    /\ execution_done \/ errors # << >>
    /\ outputs' = m
    /\ errors' = IF m = << >> THEN Append(errors, NoOutputsEntry) ELSE errors
    /\ pc' = "collect"
    /\ UNCHANGED << inputVars, sideVars, streamVars, error_data, fileVars,
                    polls, ws, attempt, prompt_id, execution_done, execErr,
                    view, process_errors, output_images, output_videos,
                    fetched, collected, result >>

\* process_outputs(outputs, job_id) and errors.extend(process_errors)
Collect ==
    /\ pc = "collect"
    /\ Log("process_outputs")
    /\ \E v \in Views(outputs, bucket) :
           LET r == process_outputs(outputs, v, bucket)
           IN  /\ view' = v
               /\ output_images' = r.images
               /\ output_videos' = r.videos
               /\ process_errors' = r.errors
               /\ fetched' = r.calls
               /\ errors' = errors \o r.errors
    /\ collected' = TRUE
    /\ pc' = "finally"
    /\ UNCHANGED << inputVars, sideVars, streamVars, error_data, fileVars,
                    polls, ws, attempt, prompt_id, execution_done, execErr,
                    outputs, result >>

\* the finally clause: close the connection if open, cleanup_input_files
\* a finally clause that leaves the connection as it is
CloseStream_Skipped == UNCHANGED << ws, open_sockets >>

\* `if ws and ws.connected: ws.close()`
CloseStream ==
    IF ws = "open"
    THEN ws' = "closed" /\ open_sockets' = open_sockets - 1
    ELSE UNCHANGED << ws, open_sockets >>

Finally ==
    /\ pc = "finally"
    /\ CloseStream
    /\ Cleanup
    /\ pc' = IF result = Pending THEN "build" ELSE "done"
    /\ UNCHANGED << inputVars, sideVars, message, srv_status, delays,
                    client_ids, error_data, calls,
                    written, dl, filenames, polls, attempt, prompt_id,
                    execution_done, execErr, errors, collectVars, result >>

\* result = {"status": "success"} plus the non-empty lists
SuccessResult(images, videos, errs) ==
    LET keys == {"status"}
                \cup (IF images # << >> THEN {"images"} ELSE {})
                \cup (IF videos # << >> THEN {"videos"} ELSE {})
                \cup (IF errs # << >> THEN {"errors"} ELSE {})
    IN  [k \in keys |->
            CASE k = "status" -> "success"
              [] k = "images" -> images
              [] k = "videos" -> videos
              [] k = "errors" -> errs]

\* the response failing the job as soon as one error was recorded
BuildResult_FailOnAnyError(images, videos, errs) ==
    IF errs # << >>
    THEN [error |-> <<"Job processing failed">>, details |-> errs]
    ELSE IF images = << >> /\ videos = << >>
    THEN [status |-> "success_no_output"]
    ELSE SuccessResult(images, videos, errs)

\* the response without the success_no_output status
BuildResult_NoEmptyStatus(images, videos, errs) ==
    IF images = << >> /\ videos = << >> /\ errs # << >>
    THEN [error |-> <<"Job processing failed">>, details |-> errs]
    ELSE SuccessResult(images, videos, errs)

\* the response without the early error return
BuildResult_IgnoreErrors(images, videos, errs) ==
    IF images = << >> /\ videos = << >>
    THEN [SuccessResult(images, videos, errs) EXCEPT
              !["status"] = "success_no_output"]
    ELSE SuccessResult(images, videos, errs)

\* the response built after the try block
BuildResult(images, videos, errs) ==
    IF images = << >> /\ videos = << >>
    THEN IF errs # << >>
         THEN [error |-> <<"Job processing failed">>, details |-> errs]
         ELSE [SuccessResult(images, videos, errs) EXCEPT
                   !["status"] = "success_no_output"]
    ELSE SuccessResult(images, videos, errs)

BuildResponse ==
    /\ pc = "build"
    /\ Return(BuildResult(output_images, output_videos, errors))
    /\ UNCHANGED << inputVars, sideVars, streamVars, error_data, calls,
                    fileVars, polls, trackVars, collectVars >>

Next ==
    \/ ValidateFail
    \/ ValidateOk
    \/ Poll
    \/ CheckServerFail
    \/ StartDownloads
    \/ \E t \in {"reference_image", "dance_video"}, ok \in BOOLEAN :
           download_file_async(t, ok)
    \/ DownloadsOk
    \/ DownloadsFailed
    \/ LoadTemplate
    \/ Transform
    \/ WsConnect
    \/ QueueWorkflow
    \/ \E f \in Frames : Recv(f)
    \/ ReconnectAttempt
    \/ ReconnectExhausted
    \/ GetHistoryFail
    \/ GetHistoryMissing
    \/ \E m \in Manifests : GetHistory(m)
    \/ Collect
    \/ Finally
    \/ BuildResponse

Spec == Init /\ [][Next]_vars

----------------------------------------------------------------------------
(* validate_input on its own: the numeric parameters of a request whose    *)
(* images, videos and prompt are valid.  A JSON value is [int |-> n] for   *)
(* an integer and [str |-> s] for a string that int() rejects.             *)

MaxDim == 40

DEFAULT_WIDTH == 512
DEFAULT_HEIGHT == 896

Requested ==
    [int : -MaxDim..MaxDim] \cup {[str |-> "abc"]}

JobInputs ==
         [width : Requested, height : Requested]
    \cup [width : Requested]
    \cup [height : Requested]

\* rounding toward zero, as a C-style integer division does
AdjustDimension_Truncate(x) ==
    IF x >= 0 THEN (x \div 32) * 32 ELSE 0 - (((0 - x) \div 32) * 32)

\* if x % 32 != 0: x = (x // 32) * 32, with Python's floor division
AdjustDimension(x) ==
    IF x % 32 # 0 THEN (x \div 32) * 32 ELSE x

\* int(v) raises ValueError for a string that is no integer literal
IntFails(v) == "int" \notin DOMAIN v

validate_input(input) ==
    LET width == Get(input, "width", [int |-> DEFAULT_WIDTH])
        height == Get(input, "height", [int |-> DEFAULT_HEIGHT])
    IN  IF IntFails(width) \/ IntFails(height)
        THEN [error |-> <<"Invalid numeric parameter">>]
        ELSE [width |-> AdjustDimension(width.int),
              height |-> AdjustDimension(height.int)]

\* handler is not running
HandlerIdle ==
    /\ hasVideo = FALSE
    /\ bucket = FALSE
    /\ HandlerInit

InitValidate ==
    /\ HandlerIdle
    /\ JobsIdle
    /\ EngineIdle
    /\ TransformIdle
    /\ CheckIdle
    /\ job_input \in JobInputs
    /\ validated = Pending

ValidateInput ==
    /\ validated = Pending
    /\ validated' = validate_input(job_input)
    /\ UNCHANGED << handlerVars, engineVars, checkVars, transformVars,
                    job_input, job_ids, jobs, input_dir, foreign >>

NextValidate == ValidateInput

SpecValidate == InitValidate /\ [][NextValidate]_vars

----------------------------------------------------------------------------
(* Two invocations of handler in separate processes that share             *)
(* COMFY_INPUT_DIR: their downloads and cleanups interleave.  A string is  *)
(* the sequence of its characters.                                          *)

MaxIdLen == 2

IdChars == {"a", "."}

JobIds == UNION { [1..n -> IdChars] : n \in 1..MaxIdLen }

\* urlparse(url).path of the input URLs
UrlPaths == { <<"/", "a", ".", "p">>,
              <<"/", "a">>,
              <<"/", "a", ".", "b", "/", "c">>,
              <<"/", ".", "p">> }

LastIndexOf(c, str, from) ==
    IF \E i \in from..Len(str) : str[i] = c
    THEN CHOOSE i \in from..Len(str) :
             str[i] = c /\ \A k \in (i + 1)..Len(str) : str[k] # c
    ELSE 0

\* os.path.splitext(path)[1]: from the last dot of the last component, if a
\* character other than a dot precedes it there; otherwise empty
splitext(path) ==
    LET sep == LastIndexOf("/", path, 1)
        dot == LastIndexOf(".", path, sep + 1)
    IN  IF dot > 0 /\ \E k \in (sep + 1)..(dot - 1) : path[k] # "."
        THEN SubSeq(path, dot, Len(path))
        ELSE << >>

\* `x or default`
Or(x, default) == IF Len(x) = 0 THEN default ELSE x

\* a name that does not carry the job id
ref_filename_Unscoped(job_id, path) ==
    <<"r", "e", "f", "_">> \o Or(splitext(path), <<".", "p", "n", "g">>)

\* f"ref_{job_id}{ref_ext}"
ref_filename(job_id, path) ==
    <<"r", "e", "f", "_">> \o job_id
        \o Or(splitext(path), <<".", "p", "n", "g">>)

\* f"dance_{job_id}{video_ext}"
video_filename(job_id, path) ==
    <<"d", "a", "n", "c", "e", "_">> \o job_id
        \o Or(splitext(path), <<".", "m", "p", "4">>)

JobNumbers == {1, 2}

InitJobs ==
    /\ HandlerIdle
    /\ ValidateIdle
    /\ EngineIdle
    /\ TransformIdle
    /\ CheckIdle
    /\ job_ids \in {ids \in [JobNumbers -> JobIds] : ids[1] # ids[2]}
    /\ jobs = [j \in JobNumbers |->
                  [pc |-> "start", filenames |-> EmptyDict, pending |-> {}]]
    /\ input_dir = EmptyDict
    /\ foreign = {}

\* download_inputs_async of job j names its files and creates its tasks
JobStart(j) ==
    /\ jobs[j].pc = "start"
    /\ \E ref_path \in UrlPaths, video_path \in UrlPaths :
           jobs' = [jobs EXCEPT ![j] =
               [pc |-> "gather",
                filenames |->
                    [reference_image |-> ref_filename(job_ids[j], ref_path),
                     dance_video |-> video_filename(job_ids[j], video_path)],
                pending |-> {"reference_image", "dance_video"}]]
    /\ UNCHANGED << handlerVars, engineVars, checkVars, transformVars,
                    job_input, validated, job_ids, input_dir, foreign >>

\* what a write or a removal of `name` by job j does to another job's file
Hit(j, op, name) ==
    IF name \in DOMAIN input_dir /\ input_dir[name] # j
    THEN {<<j, op, name>>}
    ELSE {}

\* download_file_async of job j writes the file of `key`
JobDownload(j, key) ==
    /\ jobs[j].pc = "gather"
    /\ key \in jobs[j].pending
    /\ LET name == jobs[j].filenames[key]
       IN  /\ input_dir' = [n \in DOMAIN input_dir \cup {name} |->
                               IF n = name THEN j ELSE input_dir[n]]
           /\ foreign' = foreign \cup Hit(j, "write", name)
    /\ jobs' = [jobs EXCEPT
                   ![j].pending = @ \ {key},
                   ![j].pc = IF jobs[j].pending = {key}
                             THEN "cleanup" ELSE "gather"]
    /\ UNCHANGED << handlerVars, engineVars, checkVars, transformVars,
                    job_input, validated, job_ids >>

\* cleanup_input_files(filenames) of job j
JobCleanup(j) ==
    /\ jobs[j].pc = "cleanup"
    /\ LET names == {jobs[j].filenames[k] : k \in DOMAIN jobs[j].filenames}
                        \cap DOMAIN input_dir
       IN  /\ input_dir' = [n \in DOMAIN input_dir \ names |-> input_dir[n]]
           /\ foreign' = foreign \cup UNION {Hit(j, "remove", n) : n \in names}
    /\ jobs' = [jobs EXCEPT ![j].pc = "done"]
    /\ UNCHANGED << handlerVars, engineVars, checkVars, transformVars,
                    job_input, validated, job_ids >>

NextJobs ==
    \E j \in JobNumbers :
        \/ JobStart(j)
        \/ \E key \in {"reference_image", "dance_video"} : JobDownload(j, key)
        \/ JobCleanup(j)

SpecJobs == InitJobs /\ [][NextJobs]_vars

----------------------------------------------------------------------------
(* The receive loop together with the engine's end of the stream.  The     *)
(* run starts when queue_workflow has returned the prompt id over an open  *)
(* connection and ends when the loop is left: the code after the loop has  *)
(* no loop of its own.  A frame the engine sends while no connection is    *)
(* open reaches nobody; frames are received in the order they were sent.   *)
(* handler is a sequential program, so its next step is always taken       *)
(* (weak fairness); nothing is assumed of the engine or of the network.    *)

MaxStream == 2
MaxCloses == 2

\* the events the engine emits for this job
ProgressFrame == [kind |-> "progress"]
TerminalFrames ==
    {f \in Frames : /\ f.kind \in {"executing", "execution_error"}
                    /\ f.prompt_id = OwnPrompt
                    /\ f.kind = "executing" => f.node = NoneStr
                    /\ f.kind = "execution_error" => f.node_id = "3"}

\* handler between queue_workflow's return and the first ws.recv(), for a
\* request without dance video and without bucket
TrackStart ==
    /\ pc = "recv"
    /\ hasVideo = FALSE
    /\ bucket = FALSE
    /\ dir = {RefFile}
    /\ rmFailed = FALSE
    /\ removes = << >>
    /\ written = {RefFile}
    /\ dl = [reference_image |-> "ok", dance_video |-> "none"]
    /\ filenames = [reference_image |-> RefFile, dance_video |-> ""]
    /\ polls = 0
    /\ ws = "open"
    /\ attempt = 0
    /\ prompt_id = OwnPrompt
    /\ execution_done = FALSE
    /\ execErr = None
    /\ errors = << >>
    /\ outputs = << >>
    /\ view = EmptyDict
    /\ process_errors = << >>
    /\ output_images = << >>
    /\ output_videos = << >>
    /\ fetched = << >>
    /\ collected = FALSE
    /\ error_data = None
    /\ calls = << "check_server", "download_inputs",
                  "load_workflow_template", "transform_request_to_workflow",
                  "ws.connect", "queue_workflow" >>
    /\ message = None
    /\ srv_status = None
    /\ delays = 0
    /\ client_ids = {<<"ws.connect", client_id>>,
                     <<"queue_workflow", client_id>>}
    /\ open_sockets = 1
    /\ result = Pending

\* what ws.recv() returns or raises next: the oldest frame not yet received,
\* WebSocketConnectionClosedException when the connection is lost,
\* WebSocketTimeoutException when nothing arrived within the timeout
NextFrame ==
    IF stream # << >> THEN Head(stream)
    ELSE IF link = "down" THEN [kind |-> "closed"]
    ELSE [kind |-> "timeout"]

InTracking == pc \in {"recv", "reconnect"}

EngineProgress ==
    /\ InTracking
    /\ ~emitted
    /\ link = "up"
    /\ Len(stream) < MaxStream
    /\ stream' = Append(stream, ProgressFrame)
    /\ UNCHANGED << handlerVars, otherVars, link, emitted, closes, connects >>

\* the job ends on the engine: the terminal event is sent to the client's
\* connection if there is one
EngineTerminal ==
    /\ InTracking
    /\ ~emitted
    /\ Len(stream) < MaxStream
    /\ emitted' = TRUE
    /\ \E f \in TerminalFrames :
           stream' = IF link = "up" THEN Append(stream, f) ELSE stream
    /\ UNCHANGED << handlerVars, otherVars, link, closes, connects >>

\* the connection is lost
LinkDrop ==
    /\ InTracking
    /\ link = "up"
    /\ closes < MaxCloses
    /\ link' = "down"
    /\ closes' = closes + 1
    /\ UNCHANGED << handlerVars, otherVars, stream, emitted, connects >>

TrackRecv ==
    /\ RecvStep(NextFrame)
    /\ stream' = IF stream # << >> THEN Tail(stream) ELSE stream
    /\ UNCHANGED << link, emitted, closes, connects >>

\* a reconnect attempt; a new connection carries what is sent from now on
TrackReconnect ==
    /\ ReconnectAttemptStep
    /\ IF ws' = "open"
       THEN link' = "up" /\ stream' = << >>
       ELSE UNCHANGED << link, stream >>
    /\ connects' = IF ws' = "open" \/ attempt' = attempt + 1
                   THEN connects + 1
                   ELSE connects
    /\ UNCHANGED << emitted, closes >>

TrackerNext ==
    \/ TrackRecv
    \/ TrackReconnect
    \/ ReconnectExhausted

NextTrack ==
    \/ EngineProgress
    \/ EngineTerminal
    \/ LinkDrop
    \/ TrackRecv
    \/ TrackReconnect
    \/ ReconnectExhausted

InitTrack ==
    /\ TrackStart
    /\ ValidateIdle
    /\ JobsIdle
    /\ EngineIdle
    /\ TransformIdle
    /\ CheckIdle

SpecTrack == InitTrack /\ [][NextTrack]_vars /\ WF_vars(TrackerNext)

----------------------------------------------------------------------------
(* check_server(url, retries, delay) on its own, for a number of retries   *)
(* that is a count (0 or more).  Each requests.get answers 200, answers    *)
(* another status, or raises requests.RequestException.                    *)

MaxRetries == 5

PollAnswers == {"200", "503", "RequestException"}

\* a poll taken for healthy whenever the server answered at all
Healthy_AnyStatus(answer) == answer # "RequestException"

\* `response.status_code == 200`
Healthy(answer) == answer = "200"

InitCheck ==
    /\ HandlerIdle
    /\ ValidateIdle
    /\ JobsIdle
    /\ EngineIdle
    /\ TransformIdle
    /\ retries \in 0..MaxRetries
    /\ poll_i = 0
    /\ responses = << >>
    /\ reachable = "running"

\* one iteration of check_server's loop: requests.get, then `return True`
\* or time.sleep and the next iteration
CheckServerPoll ==
    /\ reachable = "running"
    /\ InRange(poll_i, retries)
    /\ \E answer \in PollAnswers :
           /\ responses' = Append(responses, answer)
           /\ IF Healthy(answer)
              THEN reachable' = "True" /\ UNCHANGED poll_i
              ELSE poll_i' = poll_i + 1 /\ UNCHANGED reachable
    /\ UNCHANGED << handlerVars, engineVars, transformVars, job_input,
                    validated, job_ids, jobs, input_dir, foreign, retries >>

\* the loop is over: `return False`
CheckServerGiveUp ==
    /\ reachable = "running"
    /\ ~InRange(poll_i, retries)
    /\ reachable' = "False"
    /\ UNCHANGED << handlerVars, engineVars, transformVars, job_input,
                    validated, job_ids, jobs, input_dir, foreign, retries,
                    poll_i, responses >>

NextCheck ==
    \/ CheckServerPoll
    \/ CheckServerGiveUp

SpecCheck == InitCheck /\ [][NextCheck]_vars

----------------------------------------------------------------------------
(* transform_request_to_workflow on its own.  A text is the sequence of    *)
(* its pieces: a plain character, a double quote, a backslash, or a        *)
(* placeholder token; str.replace works on these pieces.  The job          *)
(* description is a record of string fields, the template one whose fields *)
(* hold the placeholders the function documents.                           *)

MaxPromptLen == 3

Quote == "\""
Backslash == "\\"
PromptPieces ==
    {"a", Quote, Backslash, "{{reference_image_filename}}", "{{prompt}}",
     "{{width}}"}
Prompts3 == UNION {[1..n -> PromptPieces] : n \in 0..MaxPromptLen}

Template ==
    [image |-> <<"{{reference_image_filename}}">>,
     video |-> <<"{{dance_video_filename}}">>,
     text |-> <<"{{prompt}}">>,
     width |-> <<"{{width}}">>,
     height |-> <<"{{height}}">>,
     steps |-> <<"{{steps}}">>,
     cfg |-> <<"{{cfg}}">>,
     seed |-> <<"{{seed}}">>]

RECURSIVE Replace(_, _, _)
\* text.replace(placeholder, value)
Replace(text, placeholder, value) ==
    IF text = << >> THEN << >>
    ELSE IF Head(text) = placeholder
         THEN value \o Replace(Tail(text), placeholder, value)
         ELSE <<Head(text)>> \o Replace(Tail(text), placeholder, value)

\* value.replace("\\", "\\\\").replace('"', '\\"'), and what json.dumps does
\* to a string
Escape(text) ==
    Replace(Replace(text, Backslash, <<Backslash, Backslash>>),
            Quote, <<Backslash, Quote>>)

RECURSIVE Unescape(_)
\* json.loads of the text between the quotes of a JSON string: a backslash
\* escapes the piece after it, a bare quote or a dangling backslash is an
\* error
Unescape(text) ==
    IF text = << >> THEN [ok |-> TRUE, text |-> << >>]
    ELSE IF Head(text) = Quote THEN [ok |-> FALSE, text |-> << >>]
    ELSE IF Head(text) = Backslash
         THEN IF Len(text) >= 2 /\ text[2] \in {Quote, Backslash}
              THEN LET rest == Unescape(Tail(Tail(text)))
                   IN  [ok |-> rest.ok, text |-> <<text[2]>> \o rest.text]
              ELSE [ok |-> FALSE, text |-> << >>]
    ELSE LET rest == Unescape(Tail(text))
         IN  [ok |-> rest.ok, text |-> <<Head(text)>> \o rest.text]

\* the `replacements` dict in its iteration order, the prompt as given
replacements(p) ==
    << <<"{{reference_image_filename}}", <<RefFile>>>>,
       <<"{{dance_video_filename}}", <<DanceFile>>>>,
       <<"{{prompt}}", p>>,
       <<"{{width}}", <<"512">>>>,
       <<"{{height}}", <<"896">>>>,
       <<"{{steps}}", <<"6">>>>,
       <<"{{cfg}}", <<"1.0">>>>,
       <<"{{seed}}", <<"42">>>> >>

\* `if placeholder in ["{{prompt}}"]`: escape quotes and backslashes
Escaped(placeholder, value) ==
    IF placeholder = "{{prompt}}" THEN Escape(value) ELSE value

RECURSIVE ReplaceAll(_, _, _)
\* the loop over replacements.items(), from item k on
ReplaceAll(text, reps, k) ==
    IF k > Len(reps) THEN text
    ELSE ReplaceAll(Replace(text, reps[k][1],
                            Escaped(reps[k][1], reps[k][2])),
                    reps, k + 1)

\* json.dumps(workflow), the replacements, json.loads: field by field, as no
\* piece spans two fields
transform_request_to_workflow(p, template) ==
    LET parsed == [k \in DOMAIN template |->
                      Unescape(ReplaceAll(Escape(template[k]),
                                          replacements(p), 1))]
    IN  IF \A k \in DOMAIN template : parsed[k].ok
        THEN [k \in DOMAIN template |-> parsed[k].text]
        ELSE [raised |-> "JSONDecodeError"]

InitTransform ==
    /\ HandlerIdle
    /\ ValidateIdle
    /\ JobsIdle
    /\ EngineIdle
    /\ CheckIdle
    /\ prompt \in Prompts3
    /\ workflow = None

Transformation ==
    /\ workflow = None
    /\ workflow' = transform_request_to_workflow(prompt, Template)
    /\ UNCHANGED << handlerVars, engineVars, checkVars, job_input, validated,
                    job_ids, jobs, input_dir, foreign, prompt >>

NextTransform == Transformation

SpecTransform == InitTransform /\ [][NextTransform]_vars

----------------------------------------------------------------------------
(* What the design says of a manifest entry, given the answers of the      *)
(* artifact retrieval: skipped (temporary), collected, or failed.          *)

IsTemp(e) == Get(e, "type", "output") = "temp"

Fate(e) ==
    IF IsTemp(e) THEN "skipped"
    ELSE IF ~Falsy(Get(e, "filename", NoneStr)) /\ view[e.filename] = "ok"
    THEN "collected"
    ELSE "failed"

WithFate(x) == { p \in EntriesOf(outputs) : Fate(EntryAt(outputs, p)) = x }

NCollected == Cardinality(WithFate("collected"))
NFailed == Cardinality(WithFate("failed"))
NSkipped == Cardinality(WithFate("skipped"))

\* the entries under `key`, in the manifest's order
RECURSIVE Listed(_, _, _)
Listed(outs, key, i) ==
    IF i > Len(outs) THEN << >>
    ELSE (IF key \in DOMAIN outs[i] THEN outs[i][key] ELSE << >>)
         \o Listed(outs, key, i + 1)

CollectedUnder(key) ==
    SelectSeq(Listed(outputs, key, 1), LAMBDA e : Fate(e) = "collected")

FormatOf(e) == IF "format" \in DOMAIN e THEN e.format ELSE "video/h264-mp4"

IsErrorResult(r) == "error" \in DOMAIN r /\ "status" \notin DOMAIN r

NoArtifacts == output_images = << >> /\ output_videos = << >>

----------------------------------------------------------------------------
(* C1: whenever handler returns, on any path, no file written into the     *)
(* input directory by this job's downloads still exists (unless a removal  *)
(* itself failed, which the design only logs).                             *)
C1_NoInputFileRemains ==
    (pc = "done" /\ ~rmFailed) => written \cap dir = {}

(* C2: if any of the job's downloads fails, handler returns an error       *)
(* result and the input directory holds no job-scoped file afterwards,     *)
(* also not the file the other download wrote.                             *)
C2_FailedDownloadLeavesNoFile ==
    (pc = "done" /\ \E t \in Tasks : dl[t] = "fail")
        => /\ "error" \in DOMAIN result
           /\ dir \cap JobFiles = {}

(* C3: once a matching execution_error event was received, handler's final *)
(* result is an error, never a result with status success or               *)
(* success_no_output, whatever the manifest holds; it carries the event's  *)
(* component type, id and message (required here wherever the history was  *)
(* retrieved).                                                             *)
C3_ExecutionErrorFailsJob ==
    (pc = "done" /\ execErr # None)
        => /\ IsErrorResult(result)
           /\ collected =>
                  /\ "details" \in DOMAIN result
                  /\ \E i \in DOMAIN result.details :
                         result.details[i] = ExecutionErrorEntry(execErr)

(* C4: after a completed execution, when at least one artifact was         *)
(* collected and the fetch of another failed, the result has status        *)
(* success, holds every collected artifact and one error entry per failed  *)
(* artifact.                                                               *)
C4_PartialSuccess ==
    (pc = "done" /\ execution_done /\ collected
        /\ NCollected >= 1 /\ NFailed >= 1)
        => /\ "status" \in DOMAIN result
           /\ result.status = "success"
           /\ Len(Get(result, "images", << >>))
                + Len(Get(result, "videos", << >>)) = NCollected
           /\ Get(result, "images", << >>) = output_images
           /\ Get(result, "videos", << >>) = output_videos
           /\ Len(Get(result, "errors", << >>)) = NFailed

C4_Witness ==
    /\ pc = "done" /\ execution_done /\ collected
    /\ NCollected >= 1 /\ NFailed >= 1
    /\ \E i \in DOMAIN fetched : view[fetched[i].filename] = "fetch_fail"

(* C5: a failed artifact never aborts process_outputs: every entry under   *)
(* an images or gifs set is processed exactly once and ends in exactly one *)
(* place: an artifact list, the error list (one entry), or skipped because *)
(* it is temporary.                                                        *)
C5_EveryEntryOnce ==
    collected =>
        /\ Len(output_images) + Len(output_videos) = NCollected
        /\ Len(process_errors) = NFailed
        /\ NCollected + NFailed + NSkipped = Cardinality(EntriesOf(outputs))
        /\ \A i \in DOMAIN outputs :
               Cardinality({ k \in DOMAIN process_errors :
                                 process_errors[k][2] = ToString(i) })
                 = Cardinality({ p \in WithFate("failed") : p[1] = i })
        /\ \A f \in FetchableFiles \cup TempFiles :
               Cardinality({ k \in DOMAIN fetched : fetched[k].filename = f })
                 = Cardinality({ p \in EntriesOf(outputs) :
                                     /\ ~IsTemp(EntryAt(outputs, p))
                                     /\ Get(EntryAt(outputs, p), "filename",
                                            NoneStr) = f })

C5_Witness ==
    /\ collected
    /\ NSkipped >= 1
    /\ \E p \in WithFate("failed"), q \in WithFate("collected") :
           p[1] = q[1] /\ p[2] = q[2] /\ p[3] < q[3]
    /\ \E p \in WithFate("failed"), q \in WithFate("collected") :
           p[1] < q[1]

(* C6: after a completed execution whose manifest holds at least one node, *)
(* zero artifacts and zero artifact errors give status success_no_output;  *)
(* a manifest without any output set is recorded as the error "No outputs  *)
(* found in history" and gives an error result listing it.                 *)
C6_EmptyButSuccessful ==
    (pc = "done" /\ execution_done /\ collected /\ NoArtifacts
        /\ process_errors = << >>)
        => IF outputs # << >>
           THEN result = [status |-> "success_no_output"]
           ELSE /\ IsErrorResult(result)
                /\ result.details = <<NoOutputsEntry>>

C6_Witness ==
    /\ pc = "done" /\ execution_done /\ collected /\ NoArtifacts
    /\ process_errors = << >>
    /\ outputs # << >>
    /\ NSkipped >= 1

\* C6 as stated: also a manifest without output sets is empty-but-successful
C6_AsStated ==
    (pc = "done" /\ execution_done /\ collected /\ NoArtifacts
        /\ process_errors = << >>)
        => /\ "status" \in DOMAIN result
           /\ result.status = "success_no_output"

(* C7: when collection produces zero artifacts and at least one error was  *)
(* recorded, the result is an error result listing the recorded errors,    *)
(* never success or success_no_output.                                     *)
C7_NoArtifactsWithErrorsFails ==
    (pc = "done" /\ collected /\ NoArtifacts /\ errors # << >>)
        => /\ IsErrorResult(result)
           /\ "details" \in DOMAIN result
           /\ result.details = errors

C7_Witness ==
    /\ pc = "done" /\ collected /\ NoArtifacts
    /\ execution_done
    /\ process_errors # << >>

(* C8: every result handler returns either carries a status field that is  *)
(* success or success_no_output and no error field, or carries an error    *)
(* field and no status field.                                              *)
C8_StatusOrError ==
    pc = "done" =>
        \/ /\ "status" \in DOMAIN result
           /\ result.status \in {"success", "success_no_output"}
           /\ "error" \notin DOMAIN result
        \/ IsErrorResult(result)

C8_Witness ==
    /\ pc = "done"
    /\ IsErrorResult(result)
    /\ collected

\* C8 as stated: every result carries a status field with one of three values
C8_AsStated ==
    pc = "done" =>
        /\ "status" \in DOMAIN result
        /\ result.status \in {"success", "success_no_output", "error"}

(* C9: no temporary-tagged artifact appears in the returned images or      *)
(* videos, and a temporary-tagged entry adds no error and is never fetched.*)
C9_TemporarySkipped ==
    collected =>
        /\ \A i \in DOMAIN output_images :
               output_images[i].filename \notin TempFiles
        /\ \A i \in DOMAIN output_videos :
               output_videos[i].filename \notin TempFiles
        /\ \A i \in DOMAIN fetched :
               fetched[i].type # "temp" /\ fetched[i].filename \notin TempFiles
        /\ (NFailed = 0 => process_errors = << >>)
        /\ (pc = "done" /\ "status" \in DOMAIN result) =>
               /\ \A i \in DOMAIN Get(result, "images", << >>) :
                      result.images[i].filename \notin TempFiles
               /\ \A i \in DOMAIN Get(result, "videos", << >>) :
                      result.videos[i].filename \notin TempFiles

C9_Witness ==
    /\ pc = "done" /\ collected
    /\ \E p \in WithFate("skipped") : p[2] = "images"
    /\ \E p \in WithFate("skipped") : p[2] = "gifs"
    /\ output_images # << >>

(* C10: process_outputs classifies by key only: the collected entries of   *)
(* images sets are the image list, those of gifs sets are the video list,  *)
(* each with the entry's format tag or the fallback video/h264-mp4, and    *)
(* entries under another key give neither an artifact nor an error.        *)
C10_ClassifiedByKey ==
    collected =>
        /\ [i \in DOMAIN output_images |-> output_images[i].filename]
             = [i \in DOMAIN CollectedUnder("images") |->
                    CollectedUnder("images")[i].filename]
        /\ [i \in DOMAIN output_videos |->
                <<output_videos[i].filename, output_videos[i].format>>]
             = [i \in DOMAIN CollectedUnder("gifs") |->
                    <<CollectedUnder("gifs")[i].filename,
                      FormatOf(CollectedUnder("gifs")[i])>>]
        /\ \A i \in DOMAIN output_images :
               "format" \notin DOMAIN output_images[i]
        /\ (\A i \in DOMAIN outputs : DOMAIN outputs[i] \subseteq {"text"})
               => NoArtifacts /\ process_errors = << >> /\ fetched = << >>

C10_Witness ==
    /\ collected
    /\ \E i \in DOMAIN outputs : "text" \in DOMAIN outputs[i]
    /\ \E i \in DOMAIN output_videos : output_videos[i].format = "video/webm"
    /\ \E i \in DOMAIN output_videos :
           output_videos[i].format = "video/h264-mp4"
    /\ output_images # << >>


----------------------------------------------------------------------------
(* Submission *)

\* `part` occurs in `text` as a contiguous run of pieces
Contains(text, part) ==
    \E i \in 1..(Len(text) - Len(part) + 1) :
        SubSeq(text, i, i + Len(part) - 1) = part

\* the (component id, error kind, message) entries of a node_errors map
NodeErrorEntries(node_errors) ==
    UNION { IF "dict" \in DOMAIN node_errors[i][2]
            THEN { <<node_errors[i][1], node_errors[i][2].dict[j][1],
                     node_errors[i][2].dict[j][2]>> :
                       j \in 1..Len(node_errors[i][2].dict) }
            ELSE {} : i \in 1..Len(node_errors) }

\* the rejection reasons the engine states in a 400 body
EngineReasons(body) ==
    IF "error" \notin DOMAIN body THEN {}
    ELSE IF "str" \in DOMAIN body.error THEN {body.error.str}
    ELSE IF "message" \in DOMAIN body.error THEN {body.error.message}
    ELSE {}

Rejected == error_data # None

(* C11: when the engine rejects the submission with a node_errors map, the *)
(* error message handler returns contains, for every (component id, error  *)
(* kind, message) entry of the map, the text "Node <id> (<kind>): <msg>"   *)
(* unaltered, and the rejection reason the engine stated.                   *)
C11_NodeErrorsVerbatim ==
    (pc = "done" /\ Rejected /\ "node_errors" \in DOMAIN error_data) =>
        /\ DOMAIN result = {"error"}
        /\ \A e \in NodeErrorEntries(error_data.node_errors) :
               Contains(result.error,
                        <<"Node ", e[1], " (", e[2], "): ", e[3]>>)
        /\ \A r \in EngineReasons(error_data) : Contains(result.error, <<r>>)

C11_Witness ==
    /\ pc = "done"
    /\ Rejected
    /\ "node_errors" \in DOMAIN error_data
    /\ Cardinality(NodeErrorEntries(error_data.node_errors)) = 2
    /\ EngineReasons(error_data) = {"Prompt outputs failed validation"}
    /\ DOMAIN result = {"error"}


Called(c) == \E i \in 1..Len(calls) : calls[i] = c

\* queue_workflow was called and handler obtained no prompt_id from it
SubmissionFailed == Called("queue_workflow") /\ prompt_id = NoneStr

(* C12: if the submission fails (a structured rejection, another non-2xx   *)
(* answer, a transport failure, a success answer without job id), handler  *)
(* returns an error result and performs no later stage: no stream frame is *)
(* received, no manifest and no artifact is fetched.                        *)
C12_SubmissionFailureIsFatal ==
    SubmissionFailed =>
        /\ ~Called("ws.recv")
        /\ ~Called("_attempt_websocket_reconnect")
        /\ ~Called("get_history")
        /\ ~Called("process_outputs")
        /\ fetched = << >>
        /\ pc \in {"finally", "done"}
        /\ DOMAIN result = {"error"}

C12_Witness ==
    /\ pc = "done"
    /\ SubmissionFailed
    /\ ~Rejected
    /\ result = [error |-> QueueFailure("no_prompt_id")]

\* check_server made all its polls and none was answered with 200
LivenessExhausted == polls = COMFY_API_AVAILABLE_MAX_RETRIES

(* C13: if liveness polling exhausts all its attempts, handler returns an *)
(* error result and no submission request is ever sent.                    *)
C13_UnavailableEngineNoSubmission ==
    LivenessExhausted =>
        /\ ~Called("queue_workflow")
        /\ pc \in {"check_server", "done"}
        /\ pc = "done" => DOMAIN result = {"error"}

C13_Witness ==
    /\ pc = "done"
    /\ LivenessExhausted
    /\ calls = <<"check_server">>
    /\ DOMAIN result = {"error"}


----------------------------------------------------------------------------
(* Reconnection *)

\* a step in which _attempt_websocket_reconnect calls new_ws.connect: the
\* call either succeeds or fails and is counted
ConnectAttempted ==
    /\ pc = "reconnect"
    /\ ws' = "open" \/ attempt' = attempt + 1

(* C14: after the stream closes, at most WEBSOCKET_RECONNECT_ATTEMPTS      *)
(* reconnect attempts are made for that disconnect; no connection is       *)
(* attempted beyond the bound, and when every attempt has failed the       *)
(* protocol error is raised and handler returns an error result.           *)
C14_ReconnectBounded ==
    [][ /\ ConnectAttempted => attempt < WEBSOCKET_RECONNECT_ATTEMPTS
        /\ attempt' <= WEBSOCKET_RECONNECT_ATTEMPTS
        /\ (pc = "reconnect" /\ attempt = WEBSOCKET_RECONNECT_ATTEMPTS) =>
               /\ pc' = "finally"
               /\ result' = [error |-> <<"WebSocket communication error">>]
        /\ (pc = "finally" /\ attempt = WEBSOCKET_RECONNECT_ATTEMPTS) =>
               /\ pc' = "done"
               /\ result' = result ]_vars

C14_Witness ==
    /\ pc = "done"
    /\ attempt = WEBSOCKET_RECONNECT_ATTEMPTS
    /\ ws = "closed"
    /\ result = [error |-> <<"WebSocket communication error">>]


\* the event by which the engine reports the submitted job idle
CompletionEvent ==
    [kind |-> "executing", node |-> NoneStr, prompt_id |-> prompt_id]

\* the receive loop runs again after a reconnect
Resumed == pc = "recv" /\ Called("_attempt_websocket_reconnect")

(* C15: when a reconnect attempt within the bound succeeds the tracker     *)
(* resumes on the new connection: the disconnect has recorded no terminal  *)
(* state and no error, no further reconnect attempt is pending for it, and *)
(* events are interpreted as before: a completion event for the job        *)
(* completes it.                                                            *)
C15_ReconnectResumes ==
    Resumed =>
        /\ ws = "open"
        /\ attempt = 0
        /\ ~execution_done
        /\ errors = << >>
        /\ execErr = None
        /\ result = Pending
        /\ ENABLED (/\ Recv(CompletionEvent)
                    /\ execution_done'
                    /\ errors' = << >>
                    /\ pc' = "history")

C15_Witness ==
    /\ pc = "done"
    /\ Called("_attempt_websocket_reconnect")
    /\ execution_done
    /\ errors = << >>
    /\ "status" \in DOMAIN result
    /\ result.status = "success"


----------------------------------------------------------------------------
(* Cleanup *)

\* how many os.remove calls have deleted file `f`
Deletions(f) ==
    Cardinality({i \in 1..Len(removes) : removes[i] = <<f, "removed">>})

\* no os.remove call is issued for a file an earlier call has deleted
NoRepeatedDelete ==
    \A i \in 1..Len(removes) : \A j \in (i + 1)..Len(removes) :
        removes[i][2] = "removed" => removes[j][1] # removes[i][1]

(* C17: each input file of the job is deleted exactly once: when handler   *)
(* has returned, every file the job's downloads wrote has been deleted by  *)
(* exactly one os.remove call (no removal having failed), and no os.remove *)
(* is ever issued for a file the job has already deleted, although         *)
(* cleanup_input_files runs twice on some exit paths.                       *)
C17_DeletedExactlyOnce ==
    /\ NoRepeatedDelete
    /\ (pc = "done" /\ ~rmFailed) => \A f \in written : Deletions(f) = 1

\* the os.remove calls of the step being taken
NewRemoves == SubSeq(removes', Len(removes) + 1, Len(removes'))

RemoveFails ==
    \E i \in 1..Len(NewRemoves) : NewRemoves[i][2] = "OSError"

\* everything but the input directory and the record of the removals
nonFileVars == << pc, hasVideo, bucket, written, dl, filenames, polls, ws,
                  attempt, prompt_id, execution_done, execErr, errors,
                  outputs, view, process_errors, output_images,
                  output_videos, fetched, collected, error_data, calls,
                  streamVars, result, sideVars >>

(* C18: a failure while deleting an input file is never escalated: the     *)
(* cleanup still calls os.remove for every remaining file of the job, and  *)
(* the step sets handler's position, result and every other variable       *)
(* exactly as the same step does when every deletion succeeds.              *)
C18_RemoveFailureNotEscalated ==
    [][ RemoveFails =>
          /\ {NewRemoves[i][1] : i \in 1..Len(NewRemoves)}
                 = Names(filenames) \cap dir
          /\ \A o \in {nonFileVars'} :
                 ENABLED (/\ Next
                          /\ nonFileVars' = o
                          /\ dir' = dir \ Names(filenames)
                          /\ rmFailed' = rmFailed) ]_vars

C18_Witness ==
    /\ pc = "done"
    /\ removes = << <<RefFile, "OSError">>, <<DanceFile, "removed">> >>
    /\ dir = {RefFile}
    /\ "status" \in DOMAIN result
    /\ result.status = "success"


----------------------------------------------------------------------------
(* Tracking *)

(* C20: tracking ends in Completed (execution_done) if and only if an      *)
(* executing event is received that reports no active component and        *)
(* carries the submitted job's id: in the receive loop exactly that event  *)
(* can set execution_done, no other event type and no executing event that *)
(* names a component or another job does, and nothing outside the loop     *)
(* sets it.                                                                 *)
C20_CompletedIffIdleEvent ==
    [][ /\ (pc = "recv" /\ ws = "open") =>
               \A f \in Frames :
                   (ENABLED (Recv(f) /\ execution_done'))
                       <=> /\ f.kind = "executing"
                           /\ f.node = NoneStr
                           /\ f.prompt_id = prompt_id
        /\ execution_done' # execution_done =>
               /\ pc = "recv"
               /\ pc' = "history"
               /\ execution_done'
               /\ errors' = errors ]_vars

C20_Witness ==
    /\ pc = "history"
    /\ execution_done
    /\ prompt_id = OwnPrompt
    /\ calls[Len(calls)] = "ws.recv"
    /\ errors = << >>


----------------------------------------------------------------------------
(* Dimensions *)

\* the largest multiple of 32 that does not exceed n
LargestMultipleOf32(n) ==
    CHOOSE m \in (n - 31)..n : m % 32 = 0

RequestedInt(key) ==
    key \in DOMAIN job_input /\ "int" \in DOMAIN job_input[key]

(* C19: for every requested integer width and height, validate_input      *)
(* returns the largest multiple of 32 that does not exceed the request; a *)
(* request that is already a multiple of 32 is returned unchanged.         *)
C19_LargestMultipleOf32 ==
    (validated # Pending /\ "error" \notin DOMAIN validated) =>
        \A key \in {"width", "height"} :
            RequestedInt(key) =>
                /\ validated[key] = LargestMultipleOf32(job_input[key].int)
                /\ validated[key] % 32 = 0
                /\ validated[key] <= job_input[key].int
                /\ job_input[key].int - validated[key] < 32
                /\ job_input[key].int % 32 = 0 =>
                       validated[key] = job_input[key].int

C19_Witness ==
    /\ validated # Pending
    /\ RequestedInt("width")
    /\ RequestedInt("height")
    /\ job_input.width.int = 33
    /\ job_input.height.int = -1
    /\ validated = [width |-> 32, height |-> -32]


----------------------------------------------------------------------------
(* Concurrent invocations *)

FileNames(j) == {jobs[j].filenames[k] : k \in DOMAIN jobs[j].filenames}

(* C16: two invocations with distinct job ids that run concurrently on the *)
(* same input directory use disjoint file names, so neither overwrites a   *)
(* file the other wrote nor deletes one in its cleanup.                     *)
C16_DisjointFiles ==
    /\ FileNames(1) \cap FileNames(2) = {}
    /\ foreign = {}
    /\ \A j \in JobNumbers :
           jobs[j].pc = "cleanup" =>
               \A n \in FileNames(j) : n \in DOMAIN input_dir
           \* the files job j has written are still there when it cleans up

C16_Witness ==
    /\ job_ids = [j \in JobNumbers |-> IF j = 1 THEN <<"a">> ELSE <<"a", ".">>]
    /\ jobs[1].pc = "cleanup"
    /\ jobs[2].pc = "done"
    /\ jobs[1].filenames.reference_image = <<"r", "e", "f", "_", "a", ".", "p">>
    /\ jobs[2].filenames.reference_image
           = <<"r", "e", "f", "_", "a", ".", ".", "p">>
    /\ Cardinality(DOMAIN input_dir) = 2
    /\ foreign = {}


\* the tracker's state: what the receive loop has recorded of the job
trackerState == << execution_done, execErr, errors, result >>

\* an idle executing event or an execution_error event of another job
ForeignTerminal(f) ==
    /\ f.kind \in {"executing", "execution_error"}
    /\ f.prompt_id # prompt_id
    /\ f.kind = "executing" => f.node = NoneStr

(* C21: an event that carries another job's id never changes the          *)
(* tracker's outcome: receiving an idle executing event or an              *)
(* execution_error event whose prompt_id differs from the submitted one    *)
(* neither ends the receive loop nor records an error.                      *)
C21_ForeignEventsIgnored ==
    [][ (pc = "recv" /\ ForeignTerminal(message')) =>
            /\ pc' = "recv"
            /\ ws' = "open"
            /\ UNCHANGED trackerState ]_vars

C21_Witness ==
    /\ pc = "recv"
    /\ message # None
    /\ message.kind = "execution_error"
    /\ message.prompt_id = OtherPrompt
    /\ prompt_id = OwnPrompt
    /\ errors = << >>
    /\ ~execution_done


\* a text frame that is not valid JSON, or JSON that is not an object of the
\* shape the loop reads
Malformed(f) == f.kind \in {"invalid_json", "not_an_object", "bad_shape"}

(* C22: a malformed or unparseable frame (text that is not valid JSON, or  *)
(* JSON that is not an object of the expected shape) is skipped: receiving *)
(* it changes no state, produces no error result and does not end          *)
(* tracking; the loop goes on to the next frame.                            *)
C22_MalformedFrameSkipped ==
    [][ (pc = "recv" /\ Malformed(message')) =>
            /\ pc' = "recv"
            /\ ws' = "open"
            /\ UNCHANGED trackerState ]_vars


(* C23: reconnect attempts are gated by HTTP reachability: every attempt   *)
(* to re-open the stream follows, in the same iteration, a reachability    *)
(* check that answered reachable; once a check answers unreachable the     *)
(* reconnect is aborted with the protocol error at once, with no stream    *)
(* connection attempt and no delay after it, even when attempts remain.    *)
C23_ReconnectGatedByReachability ==
    [][ /\ ConnectAttempted => srv_status' = [reachable |-> TRUE]
        /\ (pc = "reconnect" /\ srv_status' = [reachable |-> FALSE]) =>
               /\ attempt < WEBSOCKET_RECONNECT_ATTEMPTS
               /\ pc' = "finally"
               /\ result' = [error |-> <<"WebSocket communication error">>]
               /\ UNCHANGED << ws, attempt, delays, client_ids >>
        /\ (pc = "finally" /\ srv_status = [reachable |-> FALSE]) =>
               UNCHANGED << ws, attempt, delays, client_ids, result >> ]_vars

C23_Witness ==
    /\ pc = "done"
    /\ srv_status = [reachable |-> FALSE]
    /\ attempt \in 1..(WEBSOCKET_RECONNECT_ATTEMPTS - 1)
    /\ delays = attempt
    /\ result = [error |-> <<"WebSocket communication error">>]


(* C24: liveness of tracking: once the engine has emitted the job's        *)
(* terminal event (completion or execution error), and the connection is   *)
(* lost only finitely often, the receive loop is eventually left, which    *)
(* handler must do before it can return a result; also when the terminal   *)
(* event was emitted while the stream was disconnected.                     *)
C24_TrackingTerminates == emitted ~> ~InTracking


\* download_inputs returned the file names: input acquisition succeeded
Acquired == filenames # EmptyDict

\* handler has returned after input acquisition succeeded
ReturnedAfterAcquisition == pc = "done" /\ Acquired

\* an os.remove of file f was attempted and raised OSError
RemoveAttemptFailed(f) ==
    \E i \in 1..Len(removes) : removes[i] = <<f, "OSError">>

(* C25: once input acquisition has succeeded, every later exit of handler  *)
(* returns only after every file named in the acquisition result has been  *)
(* deleted or found absent.                                                 *)
C25_FilesGoneAtExit ==
    ReturnedAfterAcquisition => \A f \in Names(filenames) : f \notin dir

(* C25 (amended): once input acquisition has succeeded, every later exit   *)
(* of handler returns only after every file named in the acquisition       *)
(* result has been deleted, found absent, or has had its deletion          *)
(* attempted and refused with OSError.                                      *)
C25_FilesCleanedAtExit ==
    ReturnedAfterAcquisition =>
        \A f \in Names(filenames) : f \notin dir \/ RemoveAttemptFailed(f)

C25_Witness ==
    /\ ReturnedAfterAcquisition
    /\ hasVideo
    /\ DanceFile \in dir
    /\ RemoveAttemptFailed(DanceFile)
    /\ RefFile \notin dir
    /\ "error" \notin DOMAIN result


\* call a was made, and made before any call of b
Precedes(a, b) ==
    \E i \in 1..Len(calls) :
        /\ calls[i] = a
        /\ \A j \in 1..i : calls[j] # b

TrackerTerminal == execution_done \/ execErr # None

\* the part of the stage order that concerns the steps from the liveness
\* check on
OrderFromLivenessCheck ==
    /\ Called("queue_workflow") => Precedes("check_server", "queue_workflow")
    /\ Called("ws.recv") =>
           /\ Precedes("queue_workflow", "ws.recv")
           /\ prompt_id = OwnPrompt
    /\ Called("process_outputs") =>
           /\ Precedes("ws.recv", "process_outputs")
           /\ TrackerTerminal

(* C26: in every run the stages occur in the order of the design: input    *)
(* acquisition finishes before the liveness check starts, the liveness     *)
(* check precedes the submission, the submission returns the engine job id *)
(* before the tracker consumes any event, and output collection starts     *)
(* only after the tracker has reached a terminal state.                    *)
C26_StageOrder ==
    /\ Called("check_server") =>
           /\ Precedes("download_inputs", "check_server")
           /\ Acquired
    /\ OrderFromLivenessCheck


\* this step sends the submission request
Submits == ~Called("queue_workflow") /\ Called("queue_workflow")'

\* this step is the initial connection attempt, and it fails
InitialConnectFails == pc = "ws_connect" /\ ws' # "open"

(* C27: no submission request is sent unless the stream connection for the *)
(* job's client id has been opened successfully beforehand; if the initial *)
(* connection attempt fails, handler returns an error without submitting   *)
(* and without entering the reconnect logic.                                *)
C27_NoSubmissionWithoutStream ==
    [][ /\ Submits =>
               /\ ws = "open"
               /\ <<"ws.connect", client_id>> \in client_ids
        /\ InitialConnectFails =>
               /\ pc' = "finally"
               /\ "error" \in DOMAIN result'
               /\ ~Called("queue_workflow")'
               /\ ~Called("_attempt_websocket_reconnect")'
        /\ pc \in {"finally", "build", "done"} =>
               /\ calls' = calls
               /\ pc' \in {"build", "done"}
               /\ "error" \in DOMAIN result => result' = result ]_vars

C27_Witness ==
    /\ pc = "done"
    /\ Called("ws.connect")
    /\ ~Called("queue_workflow")
    /\ ~Called("_attempt_websocket_reconnect")
    /\ "error" \in DOMAIN result


TimeoutFrame == [kind |-> "timeout"]

\* everything but the record of the last frame and of the calls made
beyondMessage ==
    << pc, inputVars, fileVars, trackVars, collectVars, polls, error_data,
       srv_status, delays, client_ids, open_sockets, result, sideVars >>

(* C28: a receive timeout is non-fatal and unbounded: a timeout leaves the *)
(* tracker in its current state, records no error, triggers no reconnect   *)
(* attempt and does not end tracking, and after any number of consecutive  *)
(* timeouts the loop receives again, a further timeout included.           *)
C28_TimeoutNonFatal ==
    [][ /\ (pc = "recv" /\ message' = TimeoutFrame) =>
               /\ UNCHANGED beyondMessage
               /\ Called("_attempt_websocket_reconnect")'
                      = Called("_attempt_websocket_reconnect")
        /\ message = TimeoutFrame =>
               /\ pc = "recv"
               /\ ENABLED Recv(TimeoutFrame)
               /\ message' = TimeoutFrame => UNCHANGED vars ]_vars

C28_Witness ==
    /\ message = TimeoutFrame
    /\ pc = "recv"
    /\ ws = "open"
    /\ errors = << >>
    /\ result = Pending
    /\ Called("_attempt_websocket_reconnect")
    /\ attempt = 0


\* the last frame received is the job's completion event or a matching
\* execution_error event
LastFrameTerminal ==
    /\ message # None
    /\ IsCompletion(message) \/ IsExecutionError(message)

(* C29: Completed and Failed are terminal: after the tracker has received  *)
(* the job's completion event or a matching execution_error event, it      *)
(* receives no further frame from the stream (the terminal event stays the *)
(* last frame received) and makes no reconnect attempt.                     *)
C29_TerminalStatesFinal ==
    TrackerTerminal =>
        /\ pc \notin {"recv", "reconnect"}
        /\ LastFrameTerminal
        /\ execution_done => IsCompletion(message) /\ execErr = None
        /\ execErr # None => message = execErr /\ ~execution_done

C29_Witness ==
    /\ pc = "done"
    /\ execErr # None
    /\ message = execErr
    /\ Called("_attempt_websocket_reconnect")
    /\ ws = "closed"


\* the client ids of the stream connections opened or attempted
ConnectionIds == {e[2] : e \in {c \in client_ids : c[1] # "queue_workflow"}}

\* the client ids sent with the submission
SubmissionIds == {e[2] : e \in {c \in client_ids : c[1] = "queue_workflow"}}

(* C30: throughout one job every stream connection, the initial one and    *)
(* every reconnection, is opened with the same client correlation id, and  *)
(* that id is the one sent with the job's submission.                      *)
C30_OneClientId ==
    /\ Cardinality(ConnectionIds) <= 1
    /\ SubmissionIds \subseteq ConnectionIds
    /\ Called("queue_workflow") => SubmissionIds = ConnectionIds

C30_Witness ==
    /\ <<"ws.connect", client_id>> \in client_ids
    /\ <<"reconnect", client_id>> \in client_ids
    /\ <<"queue_workflow", client_id>> \in client_ids
    /\ pc = "recv"
    /\ Called("_attempt_websocket_reconnect")


(* C31: the reconnect bound applies per connection-closed event: after a   *)
(* successful reconnect the attempt count starts again from zero, so a     *)
(* later disconnect is again granted the full configured number of         *)
(* attempts (each attempt below the bound can be made), and the total      *)
(* number of reconnect attempts over one job is not limited by             *)
(* WEBSOCKET_RECONNECT_ATTEMPTS.                                            *)
C31_BoundPerDisconnect ==
    [][ /\ (pc = "reconnect" /\ pc' = "recv") =>
               attempt' = 0 /\ ws' = "open"
        /\ (pc = "recv" /\ pc' = "reconnect") => attempt' = 0
        /\ (pc = "reconnect" /\ attempt < WEBSOCKET_RECONNECT_ATTEMPTS) =>
               ENABLED TrackReconnect
        /\ attempt' <= WEBSOCKET_RECONNECT_ATTEMPTS ]_vars

\* the second disconnect of a job has used all its attempts after the first
\* one had used some: more attempts in total than the bound
C31_Witness ==
    /\ pc = "reconnect"
    /\ closes = 2
    /\ attempt = WEBSOCKET_RECONNECT_ATTEMPTS
    /\ connects > WEBSOCKET_RECONNECT_ATTEMPTS


\* no poll but the last one was answered with HTTP 200
OnlyLastHealthy ==
    \A k \in 1..(Len(responses) - 1) : responses[k] # "200"

(* C32: check_server issues at most `retries` polls: it returns true at    *)
(* the first poll answered with HTTP 200 without issuing any further poll, *)
(* and it returns false only after exactly `retries` polls none of which   *)
(* was answered with HTTP 200 (other answers and request failures both     *)
(* count as unsuccessful polls).                                            *)
C32_CheckServerPolls ==
    /\ Len(responses) <= retries
    /\ OnlyLastHealthy
    /\ reachable = "True" <=>
           (responses # << >> /\ responses[Len(responses)] = "200")
    /\ reachable = "False" =>
           /\ Len(responses) = retries
           /\ \A k \in 1..Len(responses) : responses[k] # "200"
    /\ reachable = "running" => Len(responses) = poll_i

C32_Witness ==
    /\ reachable = "False"
    /\ retries = 3
    /\ responses = <<"503", "RequestException", "503">>


Sources == {"reference_image", "dance_video"}

\* the request of source t has been answered
Finished(t) == dl[t] \in {"ok", "fail"}

(* C33: downloads are never retried: within one job each media source is   *)
(* requested at most once, and a failure of any single download makes the  *)
(* whole acquisition step fail with an error message that names the failed *)
(* source (reference_image or dance_video).                                *)
C33_DownloadsNotRetried ==
    [][ /\ \A t \in Sources :
               /\ Finished(t) => dl'[t] = dl[t]
               /\ (dl[t] = "none" /\ dl'[t] # "none") =>
                      /\ pc = "download"
                      /\ dl'[t] = "running"
               /\ (dl[t] = "running" /\ dl'[t] # dl[t]) => Finished(t)'
        /\ (pc # "download" /\ pc' = "download") =>
               /\ pc = "check_server"
               /\ \A t \in Sources : dl[t] = "none"
        /\ (pc = "gather" /\ pc' # "gather") =>
               IF \E t \in Sources : dl[t] = "fail"
               THEN /\ pc' = "done"
                    /\ filenames' = EmptyDict
                    /\ \E t \in Sources :
                           /\ dl[t] = "fail"
                           /\ result' = [error |-> <<"Failed downloading", t>>]
               ELSE pc' = "load_template" ]_vars

C33_Witness ==
    /\ pc = "done"
    /\ dl = [reference_image |-> "ok", dance_video |-> "fail"]
    /\ result = [error |-> <<"Failed downloading", "dance_video">>]


\* what acquisition yields for per-source outcomes o, whatever the order in
\* which the downloads finished
AcquisitionFailed(o) == \E t \in Sources : o[t] = "fail"
ReportedSource(o) ==
    IF o["reference_image"] = "fail" THEN "reference_image" ELSE "dance_video"
ExpectedFiles(o) ==
    {TargetOf(t) : t \in {u \in Sources : o[u] = "ok"}}

(* C34: the outcome of input acquisition does not depend on the order in  *)
(* which the two concurrent downloads finish or write their files: it is   *)
(* a function of the per-source outcomes alone (success or failure, the    *)
(* reported failing source, the file names, the files written); and        *)
(* acquisition returns only after both downloads have finished, so no      *)
(* input file is written after it has returned.                            *)
C34_OrderIndependent ==
    [][ /\ (pc = "gather" /\ pc' # "gather") =>
               /\ \A t \in Tasks : Finished(t)
               /\ written = ExpectedFiles(dl)
               /\ UNCHANGED << dl, written >>
               /\ IF AcquisitionFailed(dl)
                  THEN /\ result' =
                            [error |->
                                <<"Failed downloading", ReportedSource(dl)>>]
                       /\ filenames' = EmptyDict
                  ELSE /\ result' = Pending
                       /\ filenames' =
                              [reference_image |-> RefFile,
                               dance_video |->
                                   IF hasVideo THEN DanceFile ELSE ""]
        /\ pc \notin {"start", "check_server", "download", "gather"} =>
               /\ UNCHANGED << dl, written >>
               /\ dir' \subseteq dir ]_vars

\* both downloads failed, whichever finished first
C34_Witness ==
    /\ pc = "done"
    /\ hasVideo
    /\ dl = [reference_image |-> "fail", dance_video |-> "fail"]
    /\ result = [error |-> <<"Failed downloading", "reference_image">>]


\* handler has returned for a job whose input passed validation
ReturnedValidated == pc = "done" /\ Called("check_server")

\* a stage has failed, read off the calls made and the answers received
StageFailed ==
    \/ LivenessExhausted
    \/ \E t \in Sources : dl[t] = "fail"
    \/ Called("load_workflow_template")
           /\ ~Called("transform_request_to_workflow")
    \/ Called("transform_request_to_workflow") /\ ~Called("ws.connect")
    \/ Called("ws.connect") /\ ~Called("queue_workflow")
    \/ SubmissionFailed
    \/ Called("ws.recv") /\ ~Called("get_history")
    \/ execErr # None
    \/ Called("get_history") /\ ~collected
    \/ process_errors # << >>

\* r is a returned value that holds a non-empty error message
HasErrorMessage(r) ==
    \/ "error" \in DOMAIN r /\ r.error # << >>
    \/ "errors" \in DOMAIN r /\ r.errors # << >>

(* C35: for a job whose input passed validation, handler never lets an     *)
(* exception escape: it returns a result, and every failure in liveness    *)
(* checking, download, template loading, transformation, stream            *)
(* connection, submission, tracking or collection is converted into a      *)
(* returned result that contains a non-empty error message.                *)
C35_FailuresBecomeResults ==
    ReturnedValidated =>
        /\ "error" \in DOMAIN result \/ "status" \in DOMAIN result
        /\ StageFailed => HasErrorMessage(result)

C35_Witness ==
    /\ ReturnedValidated
    /\ message # None
    /\ message.kind = "ws_error"
    /\ result = [error |-> <<"WebSocket communication error">>]


(* C36: at most one stream connection of a job is open at any time, and    *)
(* when handler returns no stream connection opened for the job (the       *)
(* initial one or any reconnected one) is still open, on success and on    *)
(* every error path.                                                        *)
C36_StreamClosedAtReturn ==
    /\ open_sockets \in {0, 1}
    /\ open_sockets = 1 <=> ws = "open"
    /\ pc \in {"build", "done"} => open_sockets = 0

C36_Witness ==
    /\ pc = "done"
    /\ open_sockets = 0
    /\ <<"reconnect", client_id>> \in client_ids
    /\ message # None
    /\ message.kind = "ws_error"


\* the job description of a request with an empty prompt
Baseline == transform_request_to_workflow(<< >>, Template)

(* C37: for every prompt text, the prompt field of the job description     *)
(* produced by transform_request_to_workflow equals the request's prompt   *)
(* exactly, also when the prompt itself contains a placeholder token such  *)
(* as {{width}} or {{reference_image_filename}}, and the prompt's content  *)
(* changes the value of no other field of the job description.             *)
C37_PromptVerbatim ==
    workflow # None =>
        /\ "text" \in DOMAIN workflow
        /\ workflow.text = prompt
        /\ \A k \in DOMAIN Template \ {"text"} : workflow[k] = Baseline[k]

====
